---- MODULE Spec2Model ----
(***************************************************************************)
(* CDC 6602 character generator of the DD60 console test-bench.            *)
(*                                                                         *)
(*   GlyphTable -> binaryToVector -> vectorToTriplets -> rasterizers       *)
(*                                                                         *)
(* binaryToVector (src/src/chargen/cdcRomFunctions.js) is modelled twice   *)
(* from the same loop body: as the step machine Call / Stroke / Return     *)
(* whose variables are the function's locals, and as the operator          *)
(* binaryToVector folding the same body over a sequence.  The triplet      *)
(* functions (src/src/chargenTriplets.js) and the bitmap rasterizers       *)
(* (src/src/chargenRenderer.js) are operators applied by actions; a canvas *)
(* is the ordered list of the drawing calls made on its 2D context.  The   *)
(* two vector-to-binary encoders (src/src/vectorToCdcTableCorrect.js and   *)
(* the direction-tracking generator) are operators whose output is decoded *)
(* by the same step machine.                                               *)
(***************************************************************************)
EXTENDS Integers, Sequences, FiniteSets, TLC

(***************************************************************************)
(* Bounds of the model.                                                    *)
(***************************************************************************)
\* longest enumerated stroke-code sequence / point sequence
MaxLen == 3
\* longest stroke-code sequence of the two-call specification
MaxPairLen == 2
\* longest triplet sequence handed to the analysis functions and rasterizers
MaxRasterLen == 2
\* number of concurrent binaryToVector calls
MaxWorkers == 2
\* iterations a line walk may take before it is cut off
MaxWalkSteps == 80
\* longest enumerated vector glyph handed to the encoders
MaxVectorLen == 2

(***************************************************************************)
(* Inputs.                                                                 *)
(***************************************************************************)
\* 8-bit stroke codes: no-op, U, H1, H toggle, V2+H2, V1, V toggle, and
\* three values with bits above the low five set (48 = 0b110000,
\* 57 = 0b111001, 224 = 0b11100000).
Codes == {0, 1, 4, 6, 10, 16, 24, 48, 57, 224}

\* 5-bit codes of the two-call specification; every H field, V field and U
\* value occurs in at least two codes that differ elsewhere.
PairCodes == {0, 6, 13, 20, 25, 26}

SeqsUpTo(S, n) == UNION {[1..k -> S] : k \in 0..n}

\* first five codes of the letter C (README_VectorConversion.md, testDecoder.js)
LetterCPrefix == <<10, 10, 18, 0, 1>>

\* the toggle example: V toggle then V1
ToggleExample == <<24, 16>>

\* the 22 codes of the letter C as the repository encodes letterC_vectors
LetterCBinary ==
    <<10, 10, 18, 0, 1, 18, 2, 18, 8, 8, 18, 2, 18, 0, 1, 0, 0, 0, 0, 0, 0, 0>>

Glyphs ==
    SeqsUpTo(Codes, MaxLen) \cup {LetterCPrefix, ToggleExample, LetterCBinary}

PairGlyphs == SeqsUpTo(PairCodes, MaxPairLen)

\* the vector glyph of the letter C (22 absolute points, 10 with the beam on)
letterC_vectors ==
    <<<<2, 2, FALSE>>, <<4, 4, FALSE>>, <<6, 5, FALSE>>, <<6, 5, FALSE>>,
      <<6, 5, TRUE>>, <<4, 6, TRUE>>, <<2, 6, TRUE>>, <<0, 5, TRUE>>,
      <<0, 3, TRUE>>, <<0, 1, TRUE>>, <<2, 0, TRUE>>, <<4, 0, TRUE>>,
      <<6, 1, TRUE>>, <<6, 1, TRUE>>, <<6, 1, FALSE>>, <<6, 1, FALSE>>,
      <<6, 1, FALSE>>, <<6, 1, FALSE>>, <<6, 1, FALSE>>, <<6, 1, FALSE>>,
      <<6, 1, FALSE>>, <<6, 1, FALSE>>>>

\* absolute points of the enumerated vector glyphs: every delta of magnitude
\* 0, 1 or 2 on each axis, forwards and backwards
VectorCoords == 0..2
VectorPoints == VectorCoords \X VectorCoords \X BOOLEAN

\* the enumerated glyphs, the letter C, the letter C with a 23rd point, and
\* glyphs with a 3-unit delta
VectorGlyphs ==
    SeqsUpTo(VectorPoints, MaxVectorLen)
    \cup {letterC_vectors,
          letterC_vectors \o <<<<5, 2, TRUE>>>>,
          <<<<3, 3, TRUE>>>>,
          <<<<3, 0, FALSE>>, <<0, 3, TRUE>>>>}

\* characters asked of the lookup layer: two keys of the table and two that
\* are not keys
Chars == {"C", " ", "c", "~"}

\* marks "no call has returned yet" in the history variables
NoCall == <<-1>>

(***************************************************************************)
(* binaryToVector: flag extraction and the loop body.                      *)
(***************************************************************************)
\* (binary >> n) & 1 on a non-negative integer
BitAt(binary, n) == (binary \div (2 ^ n)) % 2

\* variant: Boolean(binary >> 4), the & 1 forgotten
V1OfUnmasked(binary) == (binary \div 16) # 0

V1Of(binary) == BitAt(binary, 4) = 1
V2Of(binary) == BitAt(binary, 3) = 1
H1Of(binary) == BitAt(binary, 2) = 1
H2Of(binary) == BitAt(binary, 1) = 1
UOf(binary) == BitAt(binary, 0) = 1

decodeBinary(binary) ==
    [V1 |-> V1Of(binary), V2 |-> V2Of(binary),
     H1 |-> H1Of(binary), H2 |-> H2Of(binary), U |-> UOf(binary)]

\* the locals of binaryToVector on entry to the loop
InitialLocals ==
    [currentX |-> 0, currentY |-> 0, beamOn |-> FALSE,
     horizontalDirection |-> 1, verticalDirection |-> 1]

\* variant: both vertical bits read as a 3-unit move
VerticalBlockMove3(s, binary) ==
    IF V1Of(binary) /\ V2Of(binary)
    THEN [s EXCEPT !.currentY = s.currentY + 3 * s.verticalDirection]
    ELSE IF V1Of(binary)
    THEN [s EXCEPT !.currentY = s.currentY + 1 * s.verticalDirection]
    ELSE IF V2Of(binary)
    THEN [s EXCEPT !.currentY = s.currentY + 2 * s.verticalDirection]
    ELSE s

\* if (V1 && V2) ... else if (V1) ... else if (V2) ...
VerticalBlock(s, binary) ==
    IF V1Of(binary) /\ V2Of(binary)
    THEN [s EXCEPT !.verticalDirection = -s.verticalDirection]
    ELSE IF V1Of(binary)
    THEN [s EXCEPT !.currentY = s.currentY + 1 * s.verticalDirection]
    ELSE IF V2Of(binary)
    THEN [s EXCEPT !.currentY = s.currentY + 2 * s.verticalDirection]
    ELSE s

\* variant: the horizontal block moves by the vertical direction
HorizontalBlockVDir(s, binary) ==
    IF H1Of(binary) /\ H2Of(binary)
    THEN [s EXCEPT !.horizontalDirection = -s.horizontalDirection]
    ELSE IF H1Of(binary)
    THEN [s EXCEPT !.currentX = s.currentX + 1 * s.verticalDirection]
    ELSE IF H2Of(binary)
    THEN [s EXCEPT !.currentX = s.currentX + 2 * s.verticalDirection]
    ELSE s

\* if (H1 && H2) ... else if (H1) ... else if (H2) ...
HorizontalBlock(s, binary) ==
    IF H1Of(binary) /\ H2Of(binary)
    THEN [s EXCEPT !.horizontalDirection = -s.horizontalDirection]
    ELSE IF H1Of(binary)
    THEN [s EXCEPT !.currentX = s.currentX + 1 * s.horizontalDirection]
    ELSE IF H2Of(binary)
    THEN [s EXCEPT !.currentX = s.currentX + 2 * s.horizontalDirection]
    ELSE s

\* variant: U switches the beam on instead of toggling it
BeamBlockSet(s, binary) ==
    IF UOf(binary) THEN [s EXCEPT !.beamOn = TRUE] ELSE s

\* if (U) beamOn = !beamOn
BeamBlock(s, binary) ==
    IF UOf(binary) THEN [s EXCEPT !.beamOn = ~s.beamOn] ELSE s

\* one iteration of the for loop, up to the push
StrokeBody(s, binary) ==
    BeamBlock(HorizontalBlock(VerticalBlock(s, binary), binary), binary)

\* [currentX, currentY, beamOn]
PointOf(s) == <<s.currentX, s.currentY, s.beamOn>>

RECURSIVE DecodeFrom(_, _, _, _)
DecodeFrom(s, binaryData, k, acc) ==
    IF k > Len(binaryData) THEN acc
    ELSE LET t == StrokeBody(s, binaryData[k])
         IN  DecodeFrom(t, binaryData, k + 1, Append(acc, PointOf(t)))

\* the whole function as a value
binaryToVector(binaryData) ==
    IF Len(binaryData) = 0 THEN <<>>
    ELSE DecodeFrom(InitialLocals, binaryData, 1, <<>>)

(***************************************************************************)
(* State.                                                                  *)
(***************************************************************************)
VARIABLES
    pc,                  \* "idle", "loop", "returned", "points", "triplets",
                         \* "analysed", "rendered", "walking", "walked",
                         \* "encoded", "thrown"
    binaryData,          \* argument of the running / last binaryToVector call
    i,                   \* loop index of binaryToVector
    currentX,
    currentY,
    beamOn,
    horizontalDirection,
    verticalDirection,
    vectorData,          \* the array being built, then the value returned
    prevData,            \* argument of the call before this one (two-call spec)
    prevVectors,         \* what that call returned
    triplets,            \* result of vectorToTriplets
    dwells,              \* result of findDwellPoints
    bounds,              \* result of getCharacterBounds
    beamOnDistance,      \* result of calculateBeamOnDistance
    render,              \* which rasterizer ran last, with its arguments
    canvas,              \* drawing calls made on the 2D context, in order
    walk,                \* locals of one running line walk (line-walk spec)
    workers,             \* locals of concurrent binaryToVector calls
    char,                \* argument of the last getCharacterVector call
    inputVectors,        \* argument of the last encoder call
    encoded              \* what that encoder call returned or threw

decoderVars ==
    <<binaryData, i, currentX, currentY, beamOn,
      horizontalDirection, verticalDirection, vectorData>>
historyVars == <<prevData, prevVectors>>
pipelineVars == <<triplets, dwells, bounds, beamOnDistance, render, canvas>>
encoderVars == <<char, inputVectors, encoded>>
otherVars == <<walk, workers, encoderVars>>
vars == <<pc, decoderVars, historyVars, pipelineVars, otherVars>>

Locals ==
    [currentX |-> currentX, currentY |-> currentY, beamOn |-> beamOn,
     horizontalDirection |-> horizontalDirection,
     verticalDirection |-> verticalDirection]

\* values of the analysis results before any analysis has run
NoBounds == [minX |-> 0, maxX |-> 0, minY |-> 0, maxY |-> 0]
NoDistance == [whole |-> 0, surds |-> <<>>]

\* no line walk is running
NoWalk ==
    [fn |-> "none", x0 |-> 0, y0 |-> 0, x1 |-> 0, y1 |-> 0,
     scale |-> 1, x |-> 0, y |-> 0, err |-> 0, steps |-> 0]

\* concurrent callers of binaryToVector
Workers == 1..MaxWorkers

\* a caller that is not inside binaryToVector and holds no result
IdleWorker ==
    [pc |-> "idle", binaryData |-> <<>>, i |-> 0, locals |-> InitialLocals,
     vectorData |-> <<>>]

\* no character has been looked up, no encoder has run
NoChar == "none"
NoEncoding == [encoder |-> "none", thrown |-> FALSE]

NoRender ==
    [mode |-> "none", scale |-> 0, resolution |-> 0, beamWidth |-> 0,
     showGrid |-> FALSE]

Init ==
    /\ pc = "idle"
    /\ binaryData = <<>>
    /\ i = 0
    /\ currentX = 0
    /\ currentY = 0
    /\ beamOn = FALSE
    /\ horizontalDirection = 1
    /\ verticalDirection = 1
    /\ vectorData = <<>>
    /\ prevData = NoCall
    /\ prevVectors = <<>>
    /\ triplets = <<>>
    /\ dwells = <<>>
    /\ bounds = NoBounds
    /\ beamOnDistance = NoDistance
    /\ render = NoRender
    /\ canvas = <<>>
    /\ walk = NoWalk
    /\ workers = [w \in Workers |-> IdleWorker]
    /\ char = NoChar
    /\ inputVectors = <<>>
    /\ encoded = NoEncoding

(***************************************************************************)
(* binaryToVector as a step machine.                                       *)
(***************************************************************************)
\* variant: verticalDirection and beamOn live outside the function and keep
\* the values the previous call left
DecoderEntryStale(g) ==
    /\ binaryData' = g
    /\ vectorData' = <<>>
    /\ IF Len(g) = 0
       THEN /\ pc' = "returned"
            /\ UNCHANGED <<i, currentX, currentY, beamOn,
                           horizontalDirection, verticalDirection>>
       ELSE /\ pc' = "loop"
            /\ i' = 0
            /\ currentX' = 0
            /\ currentY' = 0
            /\ horizontalDirection' = 1
            /\ UNCHANGED <<beamOn, verticalDirection>>

\* entry: the early return for an empty array, else the declarations of the
\* locals and i = 0
DecoderEntry(g) ==
    /\ binaryData' = g
    /\ vectorData' = <<>>
    /\ IF Len(g) = 0
       THEN /\ pc' = "returned"
            /\ UNCHANGED <<i, currentX, currentY, beamOn,
                           horizontalDirection, verticalDirection>>
       ELSE /\ pc' = "loop"
            /\ i' = 0
            /\ currentX' = InitialLocals.currentX
            /\ currentY' = InitialLocals.currentY
            /\ beamOn' = InitialLocals.beamOn
            /\ horizontalDirection' = InitialLocals.horizontalDirection
            /\ verticalDirection' = InitialLocals.verticalDirection

\* a caller decodes a glyph
Call ==
    /\ pc = "idle"
    /\ \E g \in Glyphs : DecoderEntry(g)
    /\ UNCHANGED <<historyVars, pipelineVars, otherVars>>

\* variant: the point is pushed before the stroke is applied
StrokePushBefore ==
    /\ pc = "loop"
    /\ i < Len(binaryData)
    /\ LET s == StrokeBody(Locals, binaryData[i + 1])
       IN  /\ currentX' = s.currentX
           /\ currentY' = s.currentY
           /\ beamOn' = s.beamOn
           /\ horizontalDirection' = s.horizontalDirection
           /\ verticalDirection' = s.verticalDirection
           /\ vectorData' = Append(vectorData, PointOf(Locals))
    /\ i' = i + 1
    /\ UNCHANGED <<pc, binaryData, historyVars, pipelineVars, otherVars>>

\* variant: a stroke that changes nothing pushes no point
StrokeSkipNoOp ==
    /\ pc = "loop"
    /\ i < Len(binaryData)
    /\ LET s == StrokeBody(Locals, binaryData[i + 1])
       IN  /\ currentX' = s.currentX
           /\ currentY' = s.currentY
           /\ beamOn' = s.beamOn
           /\ horizontalDirection' = s.horizontalDirection
           /\ verticalDirection' = s.verticalDirection
           /\ vectorData' = IF s = Locals THEN vectorData
                            ELSE Append(vectorData, PointOf(s))
    /\ i' = i + 1
    /\ UNCHANGED <<pc, binaryData, historyVars, pipelineVars, otherVars>>

\* variant: the point is put at the front of the array (unshift, not push)
StrokeUnshift ==
    /\ pc = "loop"
    /\ i < Len(binaryData)
    /\ LET s == StrokeBody(Locals, binaryData[i + 1])
       IN  /\ currentX' = s.currentX
           /\ currentY' = s.currentY
           /\ beamOn' = s.beamOn
           /\ horizontalDirection' = s.horizontalDirection
           /\ verticalDirection' = s.verticalDirection
           /\ vectorData' = <<PointOf(s)>> \o vectorData
    /\ i' = i + 1
    /\ UNCHANGED <<pc, binaryData, historyVars, pipelineVars, otherVars>>

\* one iteration of the for loop
Stroke ==
    /\ pc = "loop"
    /\ i < Len(binaryData)
    /\ LET s == StrokeBody(Locals, binaryData[i + 1])
       IN  /\ currentX' = s.currentX
           /\ currentY' = s.currentY
           /\ beamOn' = s.beamOn
           /\ horizontalDirection' = s.horizontalDirection
           /\ verticalDirection' = s.verticalDirection
           /\ vectorData' = Append(vectorData, PointOf(s))
    /\ i' = i + 1
    /\ UNCHANGED <<pc, binaryData, historyVars, pipelineVars, otherVars>>

\* loop exit and return vectorData
Return ==
    /\ pc = "loop"
    /\ i >= Len(binaryData)
    /\ pc' = "returned"
    /\ UNCHANGED <<decoderVars, historyVars, pipelineVars, otherVars>>

(***************************************************************************)
(* Triplet functions (chargenTriplets.js).  Indices returned by the code   *)
(* are 0-based; element k of a JavaScript array is element k + 1 here.     *)
(***************************************************************************)
\* variant: the destructuring takes y before x
vectorToTripletsSwapped(points) ==
    IF Len(points) = 0 THEN <<>>
    ELSE [k \in 1..Len(points) |->
            <<points[k][2], points[k][1], IF points[k][3] THEN 1 ELSE 0>>]

\* vectorData.map(([x, y, beamOn]) => [x, y, beamOn ? 1 : 0])
vectorToTriplets(points) ==
    IF Len(points) = 0 THEN <<>>
    ELSE [k \in 1..Len(points) |->
            <<points[k][1], points[k][2], IF points[k][3] THEN 1 ELSE 0>>]

\* variant: only the current intensity is tested
IsDwellNoPrev(cur, prev) ==
    /\ cur[1] = prev[1]
    /\ cur[2] = prev[2]
    /\ cur[3] > 0

\* x === prevX && y === prevY && intensity > 0 && prevIntensity > 0
IsDwell(cur, prev) ==
    /\ cur[1] = prev[1]
    /\ cur[2] = prev[2]
    /\ cur[3] > 0
    /\ prev[3] > 0

\* for (let i = 1; i < triplets.length; i++) { ... dwells.push(i) }
RECURSIVE DwellLoop(_, _, _)
DwellLoop(ts, k, acc) ==
    IF ~(k < Len(ts)) THEN acc
    ELSE IF IsDwell(ts[k + 1], ts[k])
         THEN DwellLoop(ts, k + 1, Append(acc, k))
         ELSE DwellLoop(ts, k + 1, acc)

findDwellPoints(ts) == DwellLoop(ts, 1, <<>>)

\* Infinity, -Infinity and finite numbers, as Math.min / Math.max see them
Infinity == [inf |-> 1, n |-> 0]
NegInfinity == [inf |-> -1, n |-> 0]
Finite(n) == [inf |-> 0, n |-> n]

\* Math.min(acc, x) with x finite
MathMin(acc, x) ==
    IF acc.inf = 1 THEN Finite(x)
    ELSE IF acc.inf = -1 THEN acc
    ELSE Finite(IF acc.n < x THEN acc.n ELSE x)

\* Math.max(acc, x) with x finite
MathMax(acc, x) ==
    IF acc.inf = -1 THEN Finite(x)
    ELSE IF acc.inf = 1 THEN acc
    ELSE Finite(IF acc.n > x THEN acc.n ELSE x)

\* for (const [x, y] of triplets) { minX = Math.min(minX, x); ... }
RECURSIVE BoundsLoop(_, _, _)
BoundsLoop(ts, k, acc) ==
    IF k > Len(ts) THEN acc
    ELSE BoundsLoop(ts, k + 1,
                    [minX |-> MathMin(acc.minX, ts[k][1]),
                     maxX |-> MathMax(acc.maxX, ts[k][1]),
                     minY |-> MathMin(acc.minY, ts[k][2]),
                     maxY |-> MathMax(acc.maxY, ts[k][2])])

\* variant: the fold starts from 0 instead of Infinity / -Infinity
getCharacterBoundsFromZero(ts) ==
    IF Len(ts) = 0 THEN [minX |-> 0, maxX |-> 0, minY |-> 0, maxY |-> 0]
    ELSE LET acc == BoundsLoop(ts, 1, [minX |-> Finite(0), maxX |-> Finite(0),
                                       minY |-> Finite(0), maxY |-> Finite(0)])
         IN  [minX |-> acc.minX.n, maxX |-> acc.maxX.n,
              minY |-> acc.minY.n, maxY |-> acc.maxY.n]

getCharacterBounds(ts) ==
    IF Len(ts) = 0 THEN [minX |-> 0, maxX |-> 0, minY |-> 0, maxY |-> 0]
    ELSE LET acc == BoundsLoop(ts, 1, [minX |-> Infinity, maxX |-> NegInfinity,
                                       minY |-> Infinity, maxY |-> NegInfinity])
         IN  [minX |-> acc.minX.n, maxX |-> acc.maxX.n,
              minY |-> acc.minY.n, maxY |-> acc.maxY.n]

\* Math.sqrt is exact on perfect squares; the other square roots are kept
\* as their radicands, in the order they are added to totalDistance
IsSquare(n) == \E r \in 0..n : r * r = n
SqrtExact(n) == CHOOSE r \in 0..n : r * r = n

\* totalDistance += Math.sqrt(dx * dx + dy * dy)
AddSqrt(total, n) ==
    IF IsSquare(n)
    THEN [total EXCEPT !.whole = total.whole + SqrtExact(n)]
    ELSE [total EXCEPT !.surds = Append(total.surds, n)]

\* variant: prevX / prevY are updated only for beam-on triplets
RECURSIVE DistanceLoopPrevInside(_, _, _, _)
DistanceLoopPrevInside(ts, k, prev, total) ==
    IF k > Len(ts) THEN total
    ELSE LET t == ts[k]
             dx == t[1] - prev[1]
             dy == t[2] - prev[2]
         IN  IF t[3] > 0
             THEN DistanceLoopPrevInside(ts, k + 1, <<t[1], t[2]>>,
                                         AddSqrt(total, dx * dx + dy * dy))
             ELSE DistanceLoopPrevInside(ts, k + 1, prev, total)

\* for (const [x, y, intensity] of triplets) of calculateBeamOnDistance
RECURSIVE DistanceLoop(_, _, _, _)
DistanceLoop(ts, k, prev, total) ==
    IF k > Len(ts) THEN total
    ELSE LET t == ts[k]
             dx == t[1] - prev[1]
             dy == t[2] - prev[2]
             added == IF t[3] > 0 THEN AddSqrt(total, dx * dx + dy * dy)
                      ELSE total
         IN  DistanceLoop(ts, k + 1, <<t[1], t[2]>>, added)

calculateBeamOnDistance(ts) ==
    DistanceLoop(ts, 1, <<0, 0>>, [whole |-> 0, surds |-> <<>>])

(***************************************************************************)
(* Bitmap rasterizers (chargenRenderer.js).  A canvas is the sequence of   *)
(* calls made on its context: fillRect with the fill style in force, and   *)
(* one "stroke" per beginPath / moveTo / lineTo / stroke group.            *)
(***************************************************************************)
\* scale factors of renderCDCScaledBitmap
Scales == {1, 2, 4, 8}
\* resolutions of renderBitmap; multiples of 7 keep pixelSize = resolution / 7
\* and the centring arithmetic exact
Resolutions == {7, 14, 21}
\* options.beamWidth of renderCDCScaledBitmap (1 is the default)
BeamWidths == {1, 2}

FillRect(x, y, w, h, style) ==
    [op |-> "fillRect", x |-> x, y |-> y, w |-> w, h |-> h, style |-> style]

StrokeLine(x0, y0, x1, y1, style) ==
    [op |-> "stroke", x |-> x0, y |-> y0, w |-> x1, h |-> y1, style |-> style]

Abs(n) == IF n < 0 THEN -n ELSE n

\* variant: sx and sy are always +1
PixelLineStepForward(x, y, err, x0y0, x1y1) ==
    LET dx == Abs(x1y1[1] - x0y0[1])
        dy == Abs(x1y1[2] - x0y0[2])
        e2 == 2 * err
        stepX == e2 > -dy
        stepY == e2 < dx
        errX == IF stepX THEN err - dy ELSE err
        xN == IF stepX THEN x + 1 ELSE x
        errY == IF stepY THEN errX + dx ELSE errX
        yN == IF stepY THEN y + 1 ELSE y
    IN  <<xN, yN, errY>>

\* one pass of the while (true) body of drawPixelLine after the break test:
\* e2, the x step and the y step; gives the next <<x, y, err>>
PixelLineStep(x, y, err, x0y0, x1y1) ==
    LET x0 == x0y0[1]
        y0 == x0y0[2]
        x1 == x1y1[1]
        y1 == x1y1[2]
        dx == Abs(x1 - x0)
        dy == Abs(y1 - y0)
        sx == IF x0 < x1 THEN 1 ELSE -1
        sy == IF y0 < y1 THEN 1 ELSE -1
        e2 == 2 * err
        stepX == e2 > -dy
        stepY == e2 < dx
        errX == IF stepX THEN err - dy ELSE err
        xN == IF stepX THEN x + sx ELSE x
        errY == IF stepY THEN errX + dx ELSE errX
        yN == IF stepY THEN y + sy ELSE y
    IN  <<xN, yN, errY>>

\* ctx.fillRect(x, 6 - y, 1, 1)
PixelLinePixel(x, y) == FillRect(x, 6 - y, 1, 1, "pixelColor")

\* variant: the row is y, not 6 - y
RECURSIVE PixelLineLoopNoFlip(_, _, _)
PixelLineLoopNoFlip(at, x0y0, x1y1) ==
    IF at[1] = x1y1[1] /\ at[2] = x1y1[2]
    THEN <<FillRect(at[1], at[2], 1, 1, "pixelColor")>>
    ELSE <<FillRect(at[1], at[2], 1, 1, "pixelColor")>>
            \o PixelLineLoopNoFlip(PixelLineStep(at[1], at[2], at[3], x0y0, x1y1),
                                   x0y0, x1y1)

\* while (true) loop of drawPixelLine from the current at = <<x, y, err>>:
\* fillRect, break at the end point, otherwise step and go round; the value
\* is the list of the fillRect calls from here on
RECURSIVE PixelLineLoop(_, _, _)
PixelLineLoop(at, x0y0, x1y1) ==
    IF at[1] = x1y1[1] /\ at[2] = x1y1[2]
    THEN <<PixelLinePixel(at[1], at[2])>>
    ELSE <<PixelLinePixel(at[1], at[2])>>
            \o PixelLineLoop(PixelLineStep(at[1], at[2], at[3], x0y0, x1y1),
                             x0y0, x1y1)

\* variant: the pixel is clamped into the 7 x 7 canvas
drawPixelLineClamped(x0, y0, x1, y1) ==
    LET line == PixelLineLoop(<<x0, y0, Abs(x1 - x0) - Abs(y1 - y0)>>,
                              <<x0, y0>>, <<x1, y1>>)
        Clamp(n) == IF n < 0 THEN 0 ELSE IF n > 6 THEN 6 ELSE n
    IN  [j \in 1..Len(line) |->
            [line[j] EXCEPT !.x = Clamp(@), !.y = Clamp(@)]]

drawPixelLine(x0, y0, x1, y1) ==
    PixelLineLoop(<<x0, y0, Abs(x1 - x0) - Abs(y1 - y0)>>, <<x0, y0>>, <<x1, y1>>)

\* one pass of the while (true) body of drawCDCBitmapLine after the break test
CDCLineStep(x, y, err, x0y0, x1y1) ==
    LET x0 == x0y0[1]
        y0 == x0y0[2]
        x1 == x1y1[1]
        y1 == x1y1[2]
        dx == Abs(x1 - x0)
        dy == Abs(y1 - y0)
        sx == IF x0 < x1 THEN 1 ELSE -1
        sy == IF y0 < y1 THEN 1 ELSE -1
        e2 == 2 * err
        stepX == e2 > -dy
        stepY == e2 < dx
        errX == IF stepX THEN err - dy ELSE err
        xN == IF stepX THEN x + sx ELSE x
        errY == IF stepY THEN errX + dx ELSE errX
        yN == IF stepY THEN y + sy ELSE y
    IN  <<xN, yN, errY>>

\* variant: the flip is 7 * scale - y, one row too low
CDCLinePixelLow(x, y, beamWidth, scale) ==
    FillRect(x, 7 * scale - y, beamWidth, beamWidth, "pixelColor")

\* ctx.fillRect(x, pixelY, beamWidth, beamWidth) with pixelY = (7 * scale - 1) - y
CDCLinePixel(x, y, beamWidth, scale) ==
    FillRect(x, (7 * scale - 1) - y, beamWidth, beamWidth, "pixelColor")

\* while (true) loop of drawCDCBitmapLine; bs = <<beamWidth, scale>>
RECURSIVE CDCLineLoop(_, _, _, _)
CDCLineLoop(at, x0y0, x1y1, bs) ==
    IF at[1] = x1y1[1] /\ at[2] = x1y1[2]
    THEN <<CDCLinePixel(at[1], at[2], bs[1], bs[2])>>
    ELSE <<CDCLinePixel(at[1], at[2], bs[1], bs[2])>>
            \o CDCLineLoop(CDCLineStep(at[1], at[2], at[3], x0y0, x1y1),
                           x0y0, x1y1, bs)

\* variant: the rectangle filled per step grows with the scale
drawCDCBitmapLineScaled(x0, y0, x1, y1, beamWidth, scale) ==
    CDCLineLoop(<<x0, y0, Abs(x1 - x0) - Abs(y1 - y0)>>,
                <<x0, y0>>, <<x1, y1>>, <<beamWidth * scale, scale>>)

drawCDCBitmapLine(x0, y0, x1, y1, beamWidth, scale) ==
    CDCLineLoop(<<x0, y0, Abs(x1 - x0) - Abs(y1 - y0)>>,
                <<x0, y0>>, <<x1, y1>>, <<beamWidth, scale>>)

\* variant: the y step adds dx to the error the pass started with, dropping
\* the update made by the x step
BitmapLineStepLostUpdate(x, y, err, x0y0, x1y1) ==
    LET x0 == x0y0[1]
        y0 == x0y0[2]
        x1 == x1y1[1]
        y1 == x1y1[2]
        dx == Abs(x1 - x0)
        dy == Abs(y1 - y0)
        sx == IF x0 < x1 THEN 1 ELSE -1
        sy == IF y0 < y1 THEN 1 ELSE -1
        e2 == 2 * err
        stepX == e2 > -dy
        stepY == e2 < dx
        errX == IF stepX THEN err - dy ELSE err
        xN == IF stepX THEN x + sx ELSE x
        errY == IF stepY THEN err + dx ELSE errX
        yN == IF stepY THEN y + sy ELSE y
    IN  <<xN, yN, errY>>

\* one pass of the while (true) body of drawBitmapLine after the break test
BitmapLineStep(x, y, err, x0y0, x1y1) ==
    LET x0 == x0y0[1]
        y0 == x0y0[2]
        x1 == x1y1[1]
        y1 == x1y1[2]
        dx == Abs(x1 - x0)
        dy == Abs(y1 - y0)
        sx == IF x0 < x1 THEN 1 ELSE -1
        sy == IF y0 < y1 THEN 1 ELSE -1
        e2 == 2 * err
        stepX == e2 > -dy
        stepY == e2 < dx
        errX == IF stepX THEN err - dy ELSE err
        xN == IF stepX THEN x + sx ELSE x
        errY == IF stepY THEN errX + dx ELSE errX
        yN == IF stepY THEN y + sy ELSE y
    IN  <<xN, yN, errY>>

\* ctx.fillRect(pixelX, pixelY, pixelSize, pixelSize) with
\* variant: the row is computed from y, not from 6 - y
BitmapLinePixelUnflipped(x, y, pixelSize) ==
    FillRect(((2 * x + 1) * pixelSize - pixelSize) \div 2,
             ((2 * y + 1) * pixelSize - pixelSize) \div 2,
             pixelSize, pixelSize, "pixelColor")

\* pixelX = (x + 0.5) * pixelSize - pixelSize/2 and
\* pixelY = (6 - y + 0.5) * pixelSize - pixelSize/2; pixelSize is an integer
\* here and the halves are computed exactly
BitmapLinePixel(x, y, pixelSize) ==
    FillRect(((2 * x + 1) * pixelSize - pixelSize) \div 2,
             ((2 * (6 - y) + 1) * pixelSize - pixelSize) \div 2,
             pixelSize, pixelSize, "pixelColor")

\* while (true) loop of drawBitmapLine
RECURSIVE BitmapLineLoop(_, _, _, _)
BitmapLineLoop(at, x0y0, x1y1, pixelSize) ==
    IF at[1] = x1y1[1] /\ at[2] = x1y1[2]
    THEN <<BitmapLinePixel(at[1], at[2], pixelSize)>>
    ELSE <<BitmapLinePixel(at[1], at[2], pixelSize)>>
            \o BitmapLineLoop(BitmapLineStep(at[1], at[2], at[3], x0y0, x1y1),
                              x0y0, x1y1, pixelSize)

\* variant: the filled square is one device pixel larger than pixelSize
drawBitmapLineWide(x0, y0, x1, y1, pixelSize) ==
    LET line == BitmapLineLoop(<<x0, y0, Abs(x1 - x0) - Abs(y1 - y0)>>,
                               <<x0, y0>>, <<x1, y1>>, pixelSize)
    IN  [j \in 1..Len(line) |->
            [line[j] EXCEPT !.w = pixelSize + 1, !.h = pixelSize + 1]]

drawBitmapLine(x0, y0, x1, y1, pixelSize) ==
    BitmapLineLoop(<<x0, y0, Abs(x1 - x0) - Abs(y1 - y0)>>,
                   <<x0, y0>>, <<x1, y1>>, pixelSize)

\* the grid loop shared in shape by renderBitmap (n = 7, step = pixelSize)
\* and renderCDCScaledBitmap (n = resolution, step = 1): for i = 0..n, a
\* vertical then a horizontal line
RECURSIVE GridLoop(_, _, _, _, _)
GridLoop(k, n, step, resolution, acc) ==
    IF k > n THEN acc
    ELSE GridLoop(k + 1, n, step, resolution,
                  acc \o <<StrokeLine(k * step, 0, k * step, resolution, "gridColor"),
                           StrokeLine(0, k * step, resolution, k * step, "gridColor")>>)

\* variant: every segment is drawn, whatever the destination's intensity
RECURSIVE TrueSizeLoopAlways(_, _, _, _)
TrueSizeLoopAlways(ts, k, prev, acc) ==
    IF k > Len(ts) THEN acc
    ELSE LET t == ts[k]
         IN  TrueSizeLoopAlways(ts, k + 1, <<t[1], t[2]>>,
                                acc \o drawPixelLine(prev[1], prev[2], t[1], t[2]))

\* for (const [x, y, intensity] of triplets) of renderTrueSizeBitmap
RECURSIVE TrueSizeLoop(_, _, _, _)
TrueSizeLoop(ts, k, prev, acc) ==
    IF k > Len(ts) THEN acc
    ELSE LET t == ts[k]
             drawn == IF t[3] > 0
                      THEN acc \o drawPixelLine(prev[1], prev[2], t[1], t[2])
                      ELSE acc
         IN  TrueSizeLoop(ts, k + 1, <<t[1], t[2]>>, drawn)

renderTrueSizeBitmap(ts) ==
    TrueSizeLoop(ts, 1, <<0, 0>>, <<FillRect(0, 0, 7, 7, "backgroundColor")>>)

\* for (const [x, y, intensity] of triplets) of renderCDCScaledBitmap
RECURSIVE CDCScaledLoop(_, _, _, _, _)
CDCScaledLoop(ts, k, prev, bs, acc) ==
    IF k > Len(ts) THEN acc
    ELSE LET t == ts[k]
             beamWidth == bs[1]
             scale == bs[2]
             drawn == IF t[3] > 0
                      THEN acc \o drawCDCBitmapLine(prev[1] * scale, prev[2] * scale,
                                                    t[1] * scale, t[2] * scale,
                                                    beamWidth, scale)
                      ELSE acc
         IN  CDCScaledLoop(ts, k + 1, <<t[1], t[2]>>, bs, drawn)

\* variant: the clear keeps the 7 x 7 size of the true-size renderer
renderCDCScaledBitmapClear7(ts, scale, beamWidth, showPixelGrid) ==
    LET resolution == 7 * scale
        cleared == <<FillRect(0, 0, 7, 7, "backgroundColor")>>
        gridded == IF showPixelGrid
                   THEN GridLoop(0, resolution, 1, resolution, cleared)
                   ELSE cleared
    IN  CDCScaledLoop(ts, 1, <<0, 0>>, <<beamWidth, scale>>, gridded)

renderCDCScaledBitmap(ts, scale, beamWidth, showPixelGrid) ==
    LET resolution == 7 * scale
        cleared == <<FillRect(0, 0, resolution, resolution, "backgroundColor")>>
        gridded == IF showPixelGrid
                   THEN GridLoop(0, resolution, 1, resolution, cleared)
                   ELSE cleared
    IN  CDCScaledLoop(ts, 1, <<0, 0>>, <<beamWidth, scale>>, gridded)

\* for (const [x, y, intensity] of triplets) of renderBitmap
RECURSIVE BitmapLoop(_, _, _, _, _)
BitmapLoop(ts, k, prev, pixelSize, acc) ==
    IF k > Len(ts) THEN acc
    ELSE LET t == ts[k]
             drawn == IF t[3] > 0
                      THEN acc \o drawBitmapLine(prev[1], prev[2], t[1], t[2], pixelSize)
                      ELSE acc
         IN  BitmapLoop(ts, k + 1, <<t[1], t[2]>>, pixelSize, drawn)

\* variant: the grid is drawn after the strokes
renderBitmapGridLast(ts, resolution, showGrid) ==
    LET pixelSize == resolution \div 7
        cleared == <<FillRect(0, 0, resolution, resolution, "backgroundColor")>>
        stroked == BitmapLoop(ts, 1, <<0, 0>>, pixelSize, cleared)
    IN  IF showGrid
        THEN GridLoop(0, 7, pixelSize, resolution, stroked)
        ELSE stroked

renderBitmap(ts, resolution, showGrid) ==
    LET pixelSize == resolution \div 7
        cleared == <<FillRect(0, 0, resolution, resolution, "backgroundColor")>>
        gridded == IF showGrid
                   THEN GridLoop(0, 7, pixelSize, resolution, cleared)
                   ELSE cleared
    IN  BitmapLoop(ts, 1, <<0, 0>>, pixelSize, gridded)

(***************************************************************************)
(* The callers' pipeline.                                                  *)
(***************************************************************************)
\* point sequences a caller may hand to vectorToTriplets directly
PointCoords == {3, 4}
Points == PointCoords \X PointCoords \X BOOLEAN
PointSeqs == SeqsUpTo(Points, MaxLen)

\* a caller holds a point array that did not come from the decoder
Supply ==
    /\ pc = "idle"
    /\ \E p \in PointSeqs : vectorData' = p
    /\ pc' = "points"
    /\ UNCHANGED <<binaryData, i, currentX, currentY, beamOn,
                   horizontalDirection, verticalDirection,
                   historyVars, pipelineVars, otherVars>>

\* triplet sequences a caller may hand to the analysis functions and the
\* rasterizers directly: corners of the 7 x 7 window, points inside it and
\* points outside it
RasterPoints == {<<0, 0>>, <<6, 6>>, <<6, 1>>, <<2, 5>>, <<-1, 3>>, <<3, 7>>}
RasterTriplets == {<<p[1], p[2], n>> : p \in RasterPoints, n \in {0, 1}}
RasterSeqs == SeqsUpTo(RasterTriplets, MaxRasterLen)

\* a caller holds a triplet array that did not come from vectorToTriplets
SupplyTriplets ==
    /\ pc = "idle"
    /\ \E ts \in RasterSeqs : triplets' = ts
    /\ pc' = "triplets"
    /\ UNCHANGED <<decoderVars, historyVars, otherVars, dwells, bounds,
                   beamOnDistance, render, canvas>>

\* triplets = vectorToTriplets(vectorData)
Convert ==
    /\ pc \in {"returned", "points"}
    /\ triplets' = vectorToTriplets(vectorData)
    /\ pc' = "triplets"
    /\ UNCHANGED <<decoderVars, historyVars, otherVars, dwells, bounds,
                   beamOnDistance, render, canvas>>

\* the analysis functions applied to the triplets
Analyse ==
    /\ pc = "triplets"
    /\ dwells' = findDwellPoints(triplets)
    /\ bounds' = getCharacterBounds(triplets)
    /\ beamOnDistance' = calculateBeamOnDistance(triplets)
    /\ pc' = "analysed"
    /\ UNCHANGED <<decoderVars, historyVars, otherVars, triplets, render, canvas>>

RenderTrueSize ==
    /\ pc = "analysed"
    /\ render' = [mode |-> "trueSize", scale |-> 1, resolution |-> 7,
                  beamWidth |-> 1, showGrid |-> FALSE]
    /\ canvas' = renderTrueSizeBitmap(triplets)
    /\ pc' = "rendered"
    /\ UNCHANGED <<decoderVars, historyVars, otherVars, triplets, dwells,
                   bounds, beamOnDistance>>

RenderCDCScaled ==
    /\ pc = "analysed"
    /\ \E scale \in Scales, beamWidth \in BeamWidths, showPixelGrid \in BOOLEAN :
          /\ render' = [mode |-> "cdcScaled", scale |-> scale,
                        resolution |-> 7 * scale, beamWidth |-> beamWidth,
                        showGrid |-> showPixelGrid]
          /\ canvas' = renderCDCScaledBitmap(triplets, scale, beamWidth, showPixelGrid)
    /\ pc' = "rendered"
    /\ UNCHANGED <<decoderVars, historyVars, otherVars, triplets, dwells,
                   bounds, beamOnDistance>>

RenderBitmap ==
    /\ pc = "analysed"
    /\ \E resolution \in Resolutions, showGrid \in BOOLEAN :
          /\ render' = [mode |-> "bitmap", scale |-> resolution \div 7,
                        resolution |-> resolution, beamWidth |-> resolution \div 7,
                        showGrid |-> showGrid]
          /\ canvas' = renderBitmap(triplets, resolution, showGrid)
    /\ pc' = "rendered"
    /\ UNCHANGED <<decoderVars, historyVars, otherVars, triplets, dwells,
                   bounds, beamOnDistance>>

\* the caller drops its arrays and its canvas
Release ==
    /\ pc \in {"returned", "rendered"}
    /\ pc' = "idle"
    /\ binaryData' = <<>>
    /\ vectorData' = <<>>
    /\ triplets' = <<>>
    /\ dwells' = <<>>
    /\ bounds' = NoBounds
    /\ beamOnDistance' = NoDistance
    /\ render' = NoRender
    /\ canvas' = <<>>
    /\ UNCHANGED <<i, currentX, currentY, beamOn,
                   horizontalDirection, verticalDirection, historyVars,
                   otherVars>>

(***************************************************************************)
(* One line walk, an iteration of its while (true) loop at a time.         *)
(***************************************************************************)
WalkFns == {"drawPixelLine", "drawCDCBitmapLine", "drawBitmapLine"}
\* scale of renderCDCScaledBitmap, pixelSize of renderBitmap
WalkScales == {1, 2, 3, 8}

\* the fillRect of the current iteration
WalkPixel(w) ==
    CASE w.fn = "drawPixelLine" -> PixelLinePixel(w.x, w.y)
      [] w.fn = "drawCDCBitmapLine" -> CDCLinePixel(w.x, w.y, 1, w.scale)
      [] w.fn = "drawBitmapLine" -> BitmapLinePixel(w.x, w.y, w.scale)

\* x, y and err after the two steps of the current iteration
WalkNext(w) ==
    CASE w.fn = "drawPixelLine" ->
            PixelLineStep(w.x, w.y, w.err, <<w.x0, w.y0>>, <<w.x1, w.y1>>)
      [] w.fn = "drawCDCBitmapLine" ->
            CDCLineStep(w.x, w.y, w.err, <<w.x0, w.y0>>, <<w.x1, w.y1>>)
      [] w.fn = "drawBitmapLine" ->
            BitmapLineStep(w.x, w.y, w.err, <<w.x0, w.y0>>, <<w.x1, w.y1>>)

\* a renderer calls a line function for the segment a -> b; the CDC-scaled
\* renderer multiplies the coordinates by scale first
WalkStart ==
    /\ pc = "idle"
    /\ \E fn \in WalkFns, a \in RasterPoints, b \in RasterPoints, scale \in WalkScales :
          LET m == IF fn = "drawCDCBitmapLine" THEN scale ELSE 1
              x0 == a[1] * m
              y0 == a[2] * m
              x1 == b[1] * m
              y1 == b[2] * m
          IN  walk' = [fn |-> fn, x0 |-> x0, y0 |-> y0, x1 |-> x1, y1 |-> y1,
                       scale |-> IF fn = "drawPixelLine" THEN 1 ELSE scale,
                       x |-> x0, y |-> y0,
                       err |-> Abs(x1 - x0) - Abs(y1 - y0), steps |-> 0]
    /\ canvas' = <<>>
    /\ pc' = "walking"
    /\ UNCHANGED <<decoderVars, historyVars, triplets, dwells, bounds,
                   beamOnDistance, render, workers, encoderVars>>

\* one iteration: fillRect, then break at the end point or step
WalkStep ==
    /\ pc = "walking"
    /\ walk.steps < MaxWalkSteps
    /\ canvas' = Append(canvas, WalkPixel(walk))
    /\ IF walk.x = walk.x1 /\ walk.y = walk.y1
       THEN /\ walk' = [walk EXCEPT !.steps = @ + 1]
            /\ pc' = "walked"
       ELSE /\ walk' = [walk EXCEPT !.x = WalkNext(walk)[1],
                                    !.y = WalkNext(walk)[2],
                                    !.err = WalkNext(walk)[3],
                                    !.steps = @ + 1]
            /\ pc' = pc
    /\ UNCHANGED <<decoderVars, historyVars, triplets, dwells, bounds,
                   beamOnDistance, render, workers, encoderVars>>

(***************************************************************************)
(* Several binaryToVector calls in progress at once, one stroke at a time. *)
(***************************************************************************)
\* glyphs of the table the concurrent callers decode
WorkerGlyphs == {<<10, 10>>, ToggleExample, <<57, 16, 1>>, LetterCPrefix}

\* caller w enters binaryToVector: its let declarations and its empty array
WorkerCall(w) ==
    /\ workers[w].pc = "idle"
    /\ \E g \in WorkerGlyphs :
          workers' = [workers EXCEPT ![w] =
                         [pc |-> IF Len(g) = 0 THEN "returned" ELSE "loop",
                          binaryData |-> g, i |-> 0,
                          locals |-> InitialLocals, vectorData |-> <<>>]]
    /\ UNCHANGED <<pc, decoderVars, historyVars, pipelineVars, walk, encoderVars>>

\* variant: position, beam and directions are module-level variables that
\* every call reads and writes
WorkerStrokeShared(w) ==
    /\ workers[w].pc = "loop"
    /\ workers[w].i < Len(workers[w].binaryData)
    /\ LET s == StrokeBody(Locals, workers[w].binaryData[workers[w].i + 1])
       IN  /\ currentX' = s.currentX
           /\ currentY' = s.currentY
           /\ beamOn' = s.beamOn
           /\ horizontalDirection' = s.horizontalDirection
           /\ verticalDirection' = s.verticalDirection
           /\ workers' = [workers EXCEPT
                             ![w].locals = s,
                             ![w].vectorData = Append(@, PointOf(s)),
                             ![w].i = @ + 1]
    /\ UNCHANGED <<pc, binaryData, i, vectorData, historyVars, pipelineVars, walk, encoderVars>>

\* one iteration of the for loop of caller w
WorkerStroke(w) ==
    /\ workers[w].pc = "loop"
    /\ workers[w].i < Len(workers[w].binaryData)
    /\ LET s == StrokeBody(workers[w].locals,
                           workers[w].binaryData[workers[w].i + 1])
       IN  workers' = [workers EXCEPT
                          ![w].locals = s,
                          ![w].vectorData = Append(@, PointOf(s)),
                          ![w].i = @ + 1]
    /\ UNCHANGED <<pc, decoderVars, historyVars, pipelineVars, walk, encoderVars>>

\* loop exit and return of caller w
WorkerReturn(w) ==
    /\ workers[w].pc = "loop"
    /\ workers[w].i >= Len(workers[w].binaryData)
    /\ workers' = [workers EXCEPT ![w].pc = "returned"]
    /\ UNCHANGED <<pc, decoderVars, historyVars, pipelineVars, walk, encoderVars>>

(***************************************************************************)
(* Encoders (vectorToCdcTableCorrect.js, generateCdcRomBinary.js and the   *)
(* direction-tracking generator) and the lookup layer.  A binary string    *)
(* such as 0b01010 is the list of its digits after the 0b prefix.          *)
(***************************************************************************)
\* Number.prototype.toString(2): binary digits, most significant first
RECURSIVE toString2(_)
toString2(n) ==
    IF n < 2 THEN <<n>> ELSE toString2(n \div 2) \o <<n % 2>>

\* String.prototype.padStart(targetLength, '0')
padStart(digits, targetLength) ==
    [k \in 1..(targetLength - Len(digits)) |-> 0] \o digits

\* the template literal `0b${binaryValue.toString(2).padStart(5, '0')}`
binaryString(binaryValue) == padStart(toString2(binaryValue), 5)

\* parseInt(binStr.replace('0b', ''), 2)
RECURSIVE parseInt2(_)
parseInt2(digits) ==
    IF Len(digits) = 0 THEN 0
    ELSE 2 * parseInt2(SubSeq(digits, 1, Len(digits) - 1)) + digits[Len(digits)]

\* locals of convertVectorToCdcTableSimple before its loop, and its result
SimpleStart ==
    [currentX |-> 0, currentY |-> 0, currentBeam |-> FALSE,
     binarySequence |-> <<>>, beamOnStrokes |-> 0, beamOffStrokes |-> 0]

\* variant: the beam bit is the destination beam state, not a toggle
SimpleBodyBeamLevel(s, point) ==
    LET nextX == point[1]
        nextY == point[2]
        nextBeam == point[3]
        absVerticalMove == Abs(nextY - s.currentY)
        absHorizontalMove == Abs(nextX - s.currentX)
        binaryValue ==
            (IF absVerticalMove = 1 THEN 16 ELSE 0)
            + (IF absVerticalMove = 2 THEN 8 ELSE 0)
            + (IF absHorizontalMove = 1 THEN 4 ELSE 0)
            + (IF absHorizontalMove = 2 THEN 2 ELSE 0)
            + (IF nextBeam THEN 1 ELSE 0)
    IN  [currentX |-> nextX, currentY |-> nextY, currentBeam |-> nextBeam,
         binarySequence |-> Append(s.binarySequence, binaryString(binaryValue)),
         beamOnStrokes |-> s.beamOnStrokes + (IF nextBeam THEN 1 ELSE 0),
         beamOffStrokes |-> s.beamOffStrokes + (IF nextBeam THEN 0 ELSE 1)]

\* body of the forEach of convertVectorToCdcTableSimple: the deltas from the
\* current position, the five bits from their magnitudes and the beam change,
\* the binary string, the summary counters, the new current state
SimpleBody(s, point) ==
    LET nextX == point[1]
        nextY == point[2]
        nextBeam == point[3]
        deltaX == nextX - s.currentX
        deltaY == nextY - s.currentY
        beamToggle == nextBeam # s.currentBeam
        absVerticalMove == Abs(deltaY)
        absHorizontalMove == Abs(deltaX)
        V1_bit == IF absVerticalMove = 1 THEN 1 ELSE 0
        V2_bit == IF absVerticalMove = 2 THEN 1 ELSE 0
        H1_bit == IF absHorizontalMove = 1 THEN 1 ELSE 0
        H2_bit == IF absHorizontalMove = 2 THEN 1 ELSE 0
        U_bit == IF beamToggle THEN 1 ELSE 0
        binaryValue ==
            V1_bit * 16 + V2_bit * 8 + H1_bit * 4 + H2_bit * 2 + U_bit
    IN  [currentX |-> nextX, currentY |-> nextY, currentBeam |-> nextBeam,
         binarySequence |-> Append(s.binarySequence, binaryString(binaryValue)),
         beamOnStrokes |-> s.beamOnStrokes + (IF nextBeam THEN 1 ELSE 0),
         beamOffStrokes |-> s.beamOffStrokes + (IF nextBeam THEN 0 ELSE 1)]

RECURSIVE SimpleLoop(_, _, _)
SimpleLoop(s, vectors, k) ==
    IF k > Len(vectors) THEN s
    ELSE SimpleLoop(SimpleBody(s, vectors[k]), vectors, k + 1)

\* throw new Error('Invalid vector data provided')
InvalidVectorData(name) == [encoder |-> name, thrown |-> TRUE]

convertVectorToCdcTableSimple(vectors) ==
    IF Len(vectors) = 0 THEN InvalidVectorData("simple")
    ELSE LET s == SimpleLoop(SimpleStart, vectors, 1)
         IN  [encoder |-> "simple", thrown |-> FALSE,
              binarySequence |-> s.binarySequence,
              summary |-> [totalStrokes |-> Len(vectors),
                           beamOnStrokes |-> s.beamOnStrokes,
                           beamOffStrokes |-> s.beamOffStrokes]]

\* variant: the digits are parsed in base 10
binaryDataOfStringsDecimal(binarySequence) ==
    [k \in 1..Len(binarySequence) |->
        binarySequence[k][1] * 10000 + binarySequence[k][2] * 1000
        + binarySequence[k][3] * 100 + binarySequence[k][4] * 10
        + binarySequence[k][5]]

\* convertAllCharacters: the binary strings parsed back to numbers
binaryDataOfStrings(binarySequence) ==
    [k \in 1..Len(binarySequence) |-> parseInt2(binarySequence[k])]

\* first pass of convertVectorToCdcBinary: raw deltas and beam changes
RECURSIVE DeltaLoop(_, _, _)
DeltaLoop(vectors, k, prev) ==
    IF k > Len(vectors) THEN <<>>
    ELSE <<[dx |-> vectors[k][1] - prev[1],
            dy |-> vectors[k][2] - prev[2],
            beamToggle |-> vectors[k][3] # prev[3]]>>
         \o DeltaLoop(vectors, k + 1, vectors[k])

\* nextDx > 0 ? 1 : -1
DirOf(d) == IF d > 0 THEN 1 ELSE -1

\* body of the second pass for deltas[k] (i = k - 1) with the tracked
\* directions: the flags of this movement, the toggles OR'ed in for the next
\* movement, the update of the directions on the first movement
TrackingBody(deltas, k, hDir, vDir) ==
    LET d == deltas[k]
        absY == Abs(d.dy)
        absX == Abs(d.dx)
        hasNext == k < Len(deltas)
        hToggle == /\ hasNext
                   /\ deltas[k + 1].dx # 0
                   /\ DirOf(deltas[k + 1].dx) # hDir
        vToggle == /\ hasNext
                   /\ deltas[k + 1].dy # 0
                   /\ DirOf(deltas[k + 1].dy) # vDir
        hDirNext == IF hToggle THEN DirOf(deltas[k + 1].dx) ELSE hDir
        vDirNext == IF vToggle THEN DirOf(deltas[k + 1].dy) ELSE vDir
        hDirThis == IF d.dx # 0 /\ hDirNext # DirOf(d.dx) /\ k = 1
                    THEN DirOf(d.dx) ELSE hDirNext
        vDirThis == IF d.dy # 0 /\ vDirNext # DirOf(d.dy) /\ k = 1
                    THEN DirOf(d.dy) ELSE vDirNext
        Bit(b) == IF b THEN 1 ELSE 0
    IN  [entry |-> [V1 |-> Bit(absY \in {1, 3} \/ vToggle),
                    V2 |-> Bit(absY \in {2, 3} \/ vToggle),
                    H1 |-> Bit(absX \in {1, 3} \/ hToggle),
                    H2 |-> Bit(absX \in {2, 3} \/ hToggle),
                    U |-> Bit(d.beamToggle)],
         hDir |-> hDirThis,
         vDir |-> vDirThis]

RECURSIVE TrackingLoop(_, _, _, _)
TrackingLoop(deltas, k, hDir, vDir) ==
    IF k > Len(deltas) THEN <<>>
    ELSE LET b == TrackingBody(deltas, k, hDir, vDir)
         IN  <<b.entry>> \o TrackingLoop(deltas, k + 1, b.hDir, b.vDir)

\* entries of one glyph in the ROM
StrokesPerGlyph == 22

\* the padding entry
PaddingEntry == [V1 |-> 0, V2 |-> 0, H1 |-> 0, H2 |-> 0, U |-> 0]

\* variant: entries beyond the 22nd are kept
PadOrTruncateKeep(binaryResult) ==
    IF Len(binaryResult) < StrokesPerGlyph
    THEN binaryResult
         \o [k \in 1..(StrokesPerGlyph - Len(binaryResult)) |-> PaddingEntry]
    ELSE binaryResult

\* while (binaryResult.length < 22) push padding; if longer, length = 22
PadOrTruncate(binaryResult) ==
    IF Len(binaryResult) < StrokesPerGlyph
    THEN binaryResult
         \o [k \in 1..(StrokesPerGlyph - Len(binaryResult)) |-> PaddingEntry]
    ELSE SubSeq(binaryResult, 1, StrokesPerGlyph)

convertVectorToCdcBinary(vectors) ==
    IF Len(vectors) = 0 THEN InvalidVectorData("tracking")
    ELSE [encoder |-> "tracking", thrown |-> FALSE,
          binaryResult |->
              PadOrTruncate(
                  TrackingLoop(DeltaLoop(vectors, 1, <<0, 0, FALSE>>), 1, 1, 1))]

\* binaryToFormatted(entry).value
binaryToFormatted(entry) ==
    entry.V1 * 16 + entry.V2 * 8 + entry.H1 * 4 + entry.H2 * 2 + entry.U

\* generateSourceFile: each entry written as a 0b literal of the table, which
\* the importing module reads as a number
binaryDataOfEntries(binaryResult) ==
    [k \in 1..Len(binaryResult) |->
        parseInt2(binaryString(binaryToFormatted(binaryResult[k])))]

\* the array handed to binaryToVector for an encoder result
binaryDataOf(e) ==
    IF e.encoder = "simple" THEN binaryDataOfStrings(e.binarySequence)
    ELSE binaryDataOfEntries(e.binaryResult)

\* the vector ROM the binary table is generated from: the letter C, and the
\* space character as 21 points at the origin with the beam off
vectorCharacterRomCDC6602 ==
    [c \in {"C", " "} |->
        IF c = "C" THEN letterC_vectors
        ELSE [k \in 1..21 |-> <<0, 0, FALSE>>]]

\* generateSourceFile: the table of binary data, one entry of 22 codes per
\* character of the vector ROM
cdcRomBinary ==
    [c \in DOMAIN vectorCharacterRomCDC6602 |->
        binaryDataOf(convertVectorToCdcBinary(vectorCharacterRomCDC6602[c]))]

\* variant: a character that is not a key yields an empty array
getCharacterBinaryNoFallback(c) ==
    IF c \in DOMAIN cdcRomBinary THEN cdcRomBinary[c] ELSE <<>>

\* cdcRomBinary[char] || cdcRomBinary[' ']: an entry is an array, and every
\* array is truthy, so the right operand is taken exactly for a missing key
getCharacterBinary(c) ==
    IF c \in DOMAIN cdcRomBinary THEN cdcRomBinary[c] ELSE cdcRomBinary[" "]

(***************************************************************************)
(* Encoder and lookup actions.                                             *)
(***************************************************************************)
\* getCharacterVector(char): the lookup, then binaryToVector on its result
GetCharacterVector ==
    /\ pc = "idle"
    /\ \E c \in Chars :
          /\ char' = c
          /\ DecoderEntry(getCharacterBinary(c))
    /\ UNCHANGED <<historyVars, pipelineVars, walk, workers,
                   inputVectors, encoded>>

\* a caller encodes a vector glyph with the simple encoder
EncodeSimple ==
    /\ pc = "idle"
    /\ \E v \in VectorGlyphs :
          /\ inputVectors' = v
          /\ encoded' = convertVectorToCdcTableSimple(v)
    /\ pc' = IF encoded'.thrown THEN "thrown" ELSE "encoded"
    /\ UNCHANGED <<decoderVars, historyVars, pipelineVars, walk, workers, char>>

\* a caller encodes a vector glyph with the direction-tracking encoder
EncodeTracking ==
    /\ pc = "idle"
    /\ \E v \in VectorGlyphs :
          /\ inputVectors' = v
          /\ encoded' = convertVectorToCdcBinary(v)
    /\ pc' = IF encoded'.thrown THEN "thrown" ELSE "encoded"
    /\ UNCHANGED <<decoderVars, historyVars, pipelineVars, walk, workers, char>>

\* the round-trip test: binaryToVector on the binary data just generated
DecodeEncoded ==
    /\ pc = "encoded"
    /\ DecoderEntry(binaryDataOf(encoded))
    /\ UNCHANGED <<historyVars, pipelineVars, otherVars>>

(***************************************************************************)
(* Specifications.                                                         *)
(***************************************************************************)
\* table glyph -> decoder -> triplets -> dwell analysis -> one rasterizer
Next ==
    \/ Call
    \/ Stroke
    \/ Return
    \/ Convert
    \/ Analyse
    \/ RenderTrueSize
    \/ RenderCDCScaled
    \/ RenderBitmap
    \/ Release

Spec == Init /\ [][Next]_vars

\* caller-supplied points -> triplets -> dwell analysis -> one rasterizer
NextTriplets ==
    \/ Supply
    \/ Convert
    \/ Analyse
    \/ RenderTrueSize
    \/ RenderCDCScaled
    \/ RenderBitmap
    \/ Release

SpecTriplets == Init /\ [][NextTriplets]_vars

\* caller-supplied triplets -> analysis -> one rasterizer
NextRaster ==
    \/ SupplyTriplets
    \/ Analyse
    \/ RenderTrueSize
    \/ RenderCDCScaled
    \/ RenderBitmap
    \/ Release

SpecRaster == Init /\ [][NextRaster]_vars

\* two consecutive decoder calls, the first one remembered
FirstCall ==
    /\ pc = "idle"
    /\ \E g \in PairGlyphs : DecoderEntry(g)
    /\ UNCHANGED <<historyVars, pipelineVars, otherVars>>

SecondCall ==
    /\ pc = "returned"
    /\ prevData' = binaryData
    /\ prevVectors' = vectorData
    /\ \E g \in PairGlyphs : DecoderEntry(g)
    /\ UNCHANGED <<pipelineVars, otherVars>>

NextPair ==
    \/ FirstCall
    \/ Stroke
    \/ Return
    \/ SecondCall

SpecPair == Init /\ [][NextPair]_vars

\* calls of several callers, their strokes interleaved in any order
NextConcurrent ==
    \E w \in Workers :
       \/ WorkerCall(w)
       \/ WorkerStroke(w)
       \/ WorkerReturn(w)

SpecConcurrent == Init /\ [][NextConcurrent]_vars

\* one decode and its conversion and analysis, or line walks; every step of
\* a function that has been entered is eventually taken (run to completion)
NextTermination ==
    \/ FirstCall
    \/ Stroke
    \/ Return
    \/ Convert
    \/ Analyse
    \/ WalkStart
    \/ WalkStep

SpecTermination ==
    /\ Init
    /\ [][NextTermination]_vars
    /\ WF_vars(Stroke)
    /\ WF_vars(Return)
    /\ WF_vars(Convert)
    /\ WF_vars(Analyse)
    /\ WF_vars(WalkStep)

\* a vector glyph encoded by one of the encoders, then decoded
NextEncode ==
    \/ EncodeSimple
    \/ EncodeTracking
    \/ DecodeEncoded
    \/ Stroke
    \/ Return

SpecEncode == Init /\ [][NextEncode]_vars

\* a character looked up and decoded, or a sequence decoded directly
NextLookup ==
    \/ GetCharacterVector
    \/ Call
    \/ Stroke
    \/ Return

SpecLookup == Init /\ [][NextLookup]_vars

(***************************************************************************)
(* Properties of the decoder.  The rule of the specification is written    *)
(* in closed form, without the loop: the direction in force at a stroke is *)
(* the parity of the toggle codes before it.                               *)
(***************************************************************************)
\* the two movement bits of an axis as a number: 2 = bit 1 only,
\* 1 = bit 2 only, 3 = both, 0 = neither
VField(code) == (code \div 8) % 4
HField(code) == (code \div 2) % 4
UField(code) == code % 2

VDirBefore(g, k) ==
    IF Cardinality({j \in 1..(k - 1) : VField(g[j]) = 3}) % 2 = 0 THEN 1 ELSE -1

HDirBefore(g, k) ==
    IF Cardinality({j \in 1..(k - 1) : HField(g[j]) = 3}) % 2 = 0 THEN 1 ELSE -1

RuleDelta(field, dir) ==
    CASE field = 2 -> dir
      [] field = 1 -> 2 * dir
      [] OTHER -> 0

Origin == <<0, 0, FALSE>>

PointBefore(points, k) == IF k = 1 THEN Origin ELSE points[k - 1]

RulePoint(g, k, before) ==
    <<before[1] + RuleDelta(HField(g[k]), HDirBefore(g, k)),
      before[2] + RuleDelta(VField(g[k]), VDirBefore(g, k)),
      IF UField(g[k]) = 1 THEN ~before[3] ELSE before[3]>>

LetterCPrefixPoints ==
    <<<<2, 2, FALSE>>, <<4, 4, FALSE>>, <<6, 5, FALSE>>, <<6, 5, FALSE>>,
      <<6, 5, TRUE>>>>

\* C1: every point pushed by binaryToVector is the previous point (the origin,
\* beam off, before stroke 0) moved by the per-stroke rule in the directions in
\* force, i.e. the state after the stroke; the directions held by the loop are
\* those the toggles so far give; and the letter C prefix decodes to
\* (2,2,off), (4,4,off), (6,5,off), (6,5,off), (6,5,on).
Thm_C1_StrokeRule ==
    /\ \A k \in 1..Len(vectorData) :
          vectorData[k] = RulePoint(binaryData, k, PointBefore(vectorData, k))
    /\ pc = "loop" =>
          /\ verticalDirection = VDirBefore(binaryData, i + 1)
          /\ horizontalDirection = HDirBefore(binaryData, i + 1)
          /\ <<currentX, currentY, beamOn>> = PointBefore(vectorData, i + 1)
    /\ (/\ pc = "returned"
        /\ Len(binaryData) >= 5
        /\ SubSeq(binaryData, 1, 5) = LetterCPrefix)
          => SubSeq(vectorData, 1, 5) = LetterCPrefixPoints

\* the letter C prefix has been decoded
Wit_C1_LetterCPrefix ==
    /\ pc = "returned"
    /\ binaryData = LetterCPrefix
    /\ vectorData = LetterCPrefixPoints

\* the low five bits of the code of the stroke a Stroke step applies
StepCode == binaryData[i + 1] % 32

IsStrokeStep == pc = "loop" /\ i < Len(binaryData) /\ i' = i + 1

\* C2: a stroke with V1=V2=1, H1=H2=0, U=0 moves nothing, leaves the beam and
\* the horizontal direction alone and negates the vertical direction; a stroke
\* that is not a vertical toggle keeps the vertical direction; no stroke moves
\* y by more than 2 and a both-bits stroke moves it by 0; [0b11000, 0b10000]
\* decodes to (0,0,false), (0,-1,false).
Thm_C2_ToggleNotMove ==
    /\ [][IsStrokeStep =>
            /\ StepCode = 24 =>
                  /\ currentX' = currentX
                  /\ currentY' = currentY
                  /\ beamOn' = beamOn
                  /\ horizontalDirection' = horizontalDirection
                  /\ verticalDirection' = -verticalDirection
                  /\ vectorData'[i + 1] = <<currentX, currentY, beamOn>>
            /\ VField(StepCode) # 3 => verticalDirection' = verticalDirection
            /\ VField(StepCode) = 3 => currentY' = currentY
            /\ currentY' - currentY \in -2..2]_vars
    /\ [](pc = "returned" /\ binaryData = ToggleExample
            => vectorData = <<<<0, 0, FALSE>>, <<0, -1, FALSE>>>>)

\* the toggle example has been decoded, the direction still negated
Wit_C2_ToggleExample ==
    /\ pc = "returned"
    /\ binaryData = ToggleExample
    /\ vectorData = <<<<0, 0, FALSE>>, <<0, -1, FALSE>>>>
    /\ verticalDirection = -1

\* C3: binaryToVector returns exactly one point per stroke code, no-op and
\* pure toggle codes included: i points are pushed after i strokes, and the
\* returned array is as long as the input (22 for a 22-code glyph, 0 for [])
Thm_C3_LengthPreserved ==
    /\ pc = "loop" => Len(vectorData) = i /\ i <= Len(binaryData)
    /\ pc = "returned" => Len(vectorData) = Len(binaryData)

\* the 22-code letter C has been decoded to 22 points, no-op codes among them
Wit_C3_TwentyTwo ==
    /\ pc = "returned"
    /\ Len(binaryData) = 22
    /\ Len(vectorData) = 22
    /\ \E k \in 1..22 : binaryData[k] = 0

(***************************************************************************)
(* Properties relating two decodings.                                      *)
(***************************************************************************)
XSeq(points) == [k \in 1..Len(points) |-> points[k][1]]
YSeq(points) == [k \in 1..Len(points) |-> points[k][2]]
BeamSeq(points) == [k \in 1..Len(points) |-> points[k][3]]

\* C4: every call enters its loop at (0,0), beam off, both directions +1 and
\* an empty output, whatever the previous call left; a glyph decoded twice in
\* a row returns the same points both times; and what a call returns is what
\* a decoding from the fresh state returns, whatever was decoded before.
Thm_C4_StatelessAcrossCalls ==
    /\ (pc = "loop" /\ i = 0) =>
          /\ currentX = 0
          /\ currentY = 0
          /\ beamOn = FALSE
          /\ horizontalDirection = 1
          /\ verticalDirection = 1
          /\ vectorData = <<>>
    /\ (pc = "returned" /\ prevData = binaryData) => vectorData = prevVectors
    /\ pc = "returned" => vectorData = binaryToVector(binaryData)

\* a glyph that ends with the vertical direction negated and the beam on has
\* been decoded twice in a row
Wit_C4_DecodedTwice ==
    /\ pc = "returned"
    /\ prevData = binaryData
    /\ Len(binaryData) = 2
    /\ verticalDirection = -1
    /\ beamOn
    /\ vectorData = prevVectors
    /\ vectorData[2][2] < 0

Mask5(g) == [k \in 1..Len(g) |-> g[k] % 32]

\* C5: for every sequence of 8-bit values the loop can always take its next
\* step or return, and the returned points are those of the sequence with
\* every value reduced to its low 5 bits.
Thm_C5_MaskedAndTotal ==
    /\ binaryData \in Seq(0..255)
    /\ pc = "loop" => ENABLED (Stroke \/ Return)
    /\ pc = "returned" =>
          /\ vectorData = binaryToVector(Mask5(binaryData))
          /\ Len(vectorData) = Len(binaryData)

\* a glyph of two codes above 31 has been decoded as its masked codes
\* (V toggle + U, then V1)
Wit_C5_HighBits ==
    /\ pc = "returned"
    /\ binaryData = <<57, 48>>
    /\ vectorData = <<<<0, 0, TRUE>>, <<0, -1, TRUE>>>>

SameField(g, h, F(_)) ==
    /\ Len(g) = Len(h)
    /\ \A k \in 1..Len(g) : F(g[k]) = F(h[k])

\* C6: of two glyphs decoded one after the other, those that agree on the H
\* bits of every code have the same x sequence, those that agree on the V bits
\* the same y sequence, those that agree on the U bits the same beam sequence;
\* and at every stroke the loop applies, horizontal-then-vertical gives the
\* same locals as vertical-then-horizontal.
Thm_C6_AxesIndependent ==
    /\ (pc = "returned" /\ prevData # NoCall) =>
          /\ SameField(prevData, binaryData, HField)
                => XSeq(prevVectors) = XSeq(vectorData)
          /\ SameField(prevData, binaryData, VField)
                => YSeq(prevVectors) = YSeq(vectorData)
          /\ SameField(prevData, binaryData, UField)
                => BeamSeq(prevVectors) = BeamSeq(vectorData)
    /\ (pc = "loop" /\ i < Len(binaryData)) =>
          LET binary == binaryData[i + 1]
          IN  BeamBlock(VerticalBlock(HorizontalBlock(Locals, binary), binary),
                        binary)
                 = StrokeBody(Locals, binary)

\* two different glyphs with the same H bits, one of them toggling the
\* vertical direction, have been decoded to the same moving x sequence and
\* different points
Wit_C6_SameHBits ==
    /\ pc = "returned"
    /\ prevData # NoCall
    /\ prevData # binaryData
    /\ SameField(prevData, binaryData, HField)
    /\ \E k \in 1..Len(binaryData) : VField(binaryData[k]) = 3
    /\ XSeq(prevVectors) = XSeq(vectorData)
    /\ YSeq(prevVectors) # YSeq(vectorData)
    /\ \E k \in 1..Len(vectorData) : vectorData[k][1] # 0

\* C7: after two consecutive codes 0b00001 the point pushed is the point that
\* preceded the pair (the origin, beam off, when the pair comes first): same
\* beam, same position.
Thm_C7_BeamPairRestores ==
    \A k \in 2..Len(vectorData) :
       (binaryData[k - 1] = 1 /\ binaryData[k] = 1)
          => vectorData[k] = PointBefore(vectorData, k - 1)

\* a prefix that leaves the beam on, then the pair: the beam is on again
Wit_C7_PairAfterBeamOn ==
    /\ pc = "returned"
    /\ binaryData = <<57, 1, 1>>
    /\ vectorData[1][3] = TRUE
    /\ vectorData[2][3] = FALSE
    /\ vectorData[3] = vectorData[1]

(***************************************************************************)
(* Properties of the triplet functions and of the empty pipeline.          *)
(***************************************************************************)
CanvasSide ==
    CASE render.mode = "trueSize" -> 7
      [] render.mode = "cdcScaled" -> 7 * render.scale
      [] OTHER -> render.resolution

\* C8: an empty glyph decodes to no point, no point converts to no triplet,
\* no triplet has no dwell point, and each rasterizer given no triplet first
\* clears the whole square of its mode and fills no rectangle in the stroke
\* colour.
Thm_C8_EmptyPipeline ==
    /\ (pc = "returned" /\ binaryData = <<>>) => vectorData = <<>>
    /\ (pc \in {"triplets", "analysed", "rendered"} /\ vectorData = <<>>)
          => triplets = <<>>
    /\ (pc \in {"analysed", "rendered"} /\ triplets = <<>>) => dwells = <<>>
    /\ (pc = "rendered" /\ triplets = <<>>) =>
          /\ Len(canvas) >= 1
          /\ canvas[1] = FillRect(0, 0, CanvasSide, CanvasSide, "backgroundColor")
          /\ \A k \in 2..Len(canvas) :
                canvas[k].op = "stroke" /\ canvas[k].style = "gridColor"
          /\ ~render.showGrid => Len(canvas) = 1

\* the empty glyph has gone through the decoder, the converter, the dwell
\* analysis and the CDC-scaled rasterizer at scale 4
Wit_C8_EmptyRendered ==
    /\ pc = "rendered"
    /\ binaryData = <<>>
    /\ vectorData = <<>>
    /\ triplets = <<>>
    /\ dwells = <<>>
    /\ render.mode = "cdcScaled"
    /\ render.scale = 4
    /\ canvas = <<FillRect(0, 0, 28, 28, "backgroundColor")>>

\* C9: vectorToTriplets returns one triplet per point, in order, with the
\* point's x and y and intensity 1 exactly when the point's beam is on, 0
\* otherwise.
Thm_C9_TripletMap ==
    pc \in {"triplets", "analysed", "rendered"} =>
       /\ Len(triplets) = Len(vectorData)
       /\ \A k \in 1..Len(vectorData) :
             /\ triplets[k][1] = vectorData[k][1]
             /\ triplets[k][2] = vectorData[k][2]
             /\ triplets[k][3] \in {0, 1}
             /\ triplets[k][3] = 1 <=> vectorData[k][3] = TRUE

\* a beam-on and a beam-off point with different coordinates have been
\* converted
Wit_C9_Converted ==
    /\ pc = "triplets"
    /\ vectorData = <<<<3, 4, TRUE>>, <<4, 3, FALSE>>>>
    /\ triplets = <<<<3, 4, 1>>, <<4, 3, 0>>>>

\* 0-based index n of the code is element n + 1 here
DwellIndices(ts) ==
    {n \in 1..(Len(ts) - 1) :
        /\ ts[n + 1][1] = ts[n][1]
        /\ ts[n + 1][2] = ts[n][2]
        /\ ts[n + 1][3] # 0
        /\ ts[n][3] # 0}

\* C10: findDwellPoints returns, strictly increasing, exactly the indices
\* i >= 1 whose position equals that of i - 1 with both intensities nonzero;
\* never index 0; [(3,3,1), (3,3,1), (4,3,1)] gives [1].
Thm_C10_DwellPoints ==
    pc \in {"analysed", "rendered"} =>
       /\ \A a, b \in 1..Len(dwells) : a < b => dwells[a] < dwells[b]
       /\ {dwells[a] : a \in 1..Len(dwells)} = DwellIndices(triplets)
       /\ \A a \in 1..Len(dwells) : dwells[a] >= 1
       /\ triplets = <<<<3, 3, 1>>, <<3, 3, 1>>, <<4, 3, 1>>>> => dwells = <<1>>

\* the example of the specification has been analysed
Wit_C10_Example ==
    /\ pc = "analysed"
    /\ triplets = <<<<3, 3, 1>>, <<3, 3, 1>>, <<4, 3, 1>>>>
    /\ dwells = <<1>>

(***************************************************************************)
(* Properties of the bounds and of the beam-on distance.                   *)
(***************************************************************************)
SetMin(S) == CHOOSE m \in S : \A n \in S : m <= n
SetMax(S) == CHOOSE m \in S : \A n \in S : m >= n

\* C11: getCharacterBounds of a non-empty sequence is the least and greatest
\* x and y over all its triplets, beam-off ones included and the origin not;
\* of an empty sequence it is 0, 0, 0, 0.
Thm_C11_Bounds ==
    pc \in {"analysed", "rendered"} =>
       IF Len(triplets) = 0
       THEN bounds = [minX |-> 0, maxX |-> 0, minY |-> 0, maxY |-> 0]
       ELSE LET xs == {triplets[k][1] : k \in 1..Len(triplets)}
                ys == {triplets[k][2] : k \in 1..Len(triplets)}
            IN  bounds = [minX |-> SetMin(xs), maxX |-> SetMax(xs),
                          minY |-> SetMin(ys), maxY |-> SetMax(ys)]

\* a beam-off point sets the maxima, and the minima stay above the origin
Wit_C11_BeamOffCounts ==
    /\ pc = "analysed"
    /\ triplets = <<<<6, 6, 0>>, <<2, 5, 1>>>>
    /\ bounds = [minX |-> 2, maxX |-> 6, minY |-> 5, maxY |-> 6]

\* start of segment k: the previous triplet, the origin for the first
SegStart(ts, k) == IF k = 1 THEN <<0, 0>> ELSE <<ts[k - 1][1], ts[k - 1][2]>>

\* squared length of segment k
SegLen2(ts, k) ==
    LET dx == ts[k][1] - SegStart(ts, k)[1]
        dy == ts[k][2] - SegStart(ts, k)[2]
    IN  dx * dx + dy * dy

\* |dx| + |dy| of segment k
SegManhattan(ts, k) ==
    Abs(ts[k][1] - SegStart(ts, k)[1]) + Abs(ts[k][2] - SegStart(ts, k)[2])

SegAxisAligned(ts, k) ==
    ts[k][1] = SegStart(ts, k)[1] \/ ts[k][2] = SegStart(ts, k)[2]

\* the segments whose destination has intensity > 0
BeamOnSegs(ts) == {k \in 1..Len(ts) : ts[k][3] > 0}

SegIsExact(ts, k) == \E r \in 0..SegLen2(ts, k) : r * r = SegLen2(ts, k)
SegRoot(ts, k) == CHOOSE r \in 0..SegLen2(ts, k) : r * r = SegLen2(ts, k)

\* sum of the whole-number lengths of the beam-on segments 1..k
RECURSIVE ExactLengthSum(_, _)
ExactLengthSum(ts, k) ==
    IF k = 0 THEN 0
    ELSE ExactLengthSum(ts, k - 1)
            + (IF k \in BeamOnSegs(ts) /\ SegIsExact(ts, k)
               THEN SegRoot(ts, k) ELSE 0)

\* sum of |dx| + |dy| over the beam-on segments 1..k
RECURSIVE ManhattanSum(_, _)
ManhattanSum(ts, k) ==
    IF k = 0 THEN 0
    ELSE ManhattanSum(ts, k - 1)
            + (IF k \in BeamOnSegs(ts) THEN SegManhattan(ts, k) ELSE 0)

\* C12: calculateBeamOnDistance adds the length of exactly the segments whose
\* destination has intensity > 0, each running from the previous triplet
\* (beam-off or not; the origin for the first): the exact square roots sum to
\* the whole part, every other segment contributes its radicand once; when
\* all beam-on segments are axis-aligned the result is the sum of |dx| + |dy|.
Thm_C12_BeamOnDistance ==
    pc \in {"analysed", "rendered"} =>
       LET on == BeamOnSegs(triplets)
           inexact == {k \in on : ~SegIsExact(triplets, k)}
       IN  /\ beamOnDistance.whole = ExactLengthSum(triplets, Len(triplets))
           /\ Len(beamOnDistance.surds) = Cardinality(inexact)
           /\ \A k \in inexact :
                 Cardinality({j \in 1..Len(beamOnDistance.surds) :
                                 beamOnDistance.surds[j] = SegLen2(triplets, k)})
                    = Cardinality({m \in inexact :
                                 SegLen2(triplets, m) = SegLen2(triplets, k)})
           /\ (\A k \in on : SegAxisAligned(triplets, k)) =>
                 /\ beamOnDistance.surds = <<>>
                 /\ beamOnDistance.whole = ManhattanSum(triplets, Len(triplets))

\* a beam-off triplet adds nothing and starts the vertical beam-on segment
\* that follows it
Wit_C12_BeamOffStartsNext ==
    /\ pc = "analysed"
    /\ triplets = <<<<6, 6, 0>>, <<6, 1, 1>>>>
    /\ beamOnDistance = [whole |-> 5, surds |-> <<>>]

(***************************************************************************)
(* Properties of the rasterizers.                                          *)
(***************************************************************************)
IsStrokePixel(r) == r.op = "fillRect" /\ r.style = "pixelColor"
IsGridLine(r) == r.op = "stroke" /\ r.style = "gridColor"

\* the stroke pixels of a canvas, in drawing order
StrokePixels(c) == SelectSeq(c, IsStrokePixel)

\* the pixels one segment from a to b writes under the rendering r
ModeLine(r, a, b) ==
    CASE r.mode = "trueSize" -> drawPixelLine(a[1], a[2], b[1], b[2])
      [] r.mode = "cdcScaled" ->
            drawCDCBitmapLine(a[1] * r.scale, a[2] * r.scale,
                              b[1] * r.scale, b[2] * r.scale,
                              r.beamWidth, r.scale)
      [] r.mode = "bitmap" ->
            drawBitmapLine(a[1], a[2], b[1], b[2], r.resolution \div 7)

\* the pixels of segments 1..k, a segment counting iff its destination's
\* intensity is nonzero
RECURSIVE SegmentPixels(_, _, _)
SegmentPixels(ts, r, k) ==
    IF k = 0 THEN <<>>
    ELSE SegmentPixels(ts, r, k - 1)
            \o (IF ts[k][3] # 0
                THEN ModeLine(r, SegStart(ts, k), <<ts[k][1], ts[k][2]>>)
                ELSE <<>>)

\* C13: each of the three rasterizers draws segment k iff triplet k has a
\* nonzero intensity, from the point just before it (the origin for the
\* first), whatever that point's intensity; a glyph whose triplets all have
\* intensity 0 leaves no stroke pixel; [0b01010, 0b01010] decodes to
\* (2,2,off), (4,4,off) and its true-size canvas holds the clear only.
Thm_C13_DrawnIffDestinationOn ==
    /\ pc = "rendered" =>
          /\ StrokePixels(canvas) = SegmentPixels(triplets, render, Len(triplets))
          /\ (\A k \in 1..Len(triplets) : triplets[k][3] = 0) =>
                StrokePixels(canvas) = <<>>
    /\ (pc \in {"returned", "triplets", "analysed", "rendered"}
          /\ binaryData = <<10, 10>>) =>
          /\ vectorData = <<<<2, 2, FALSE>>, <<4, 4, FALSE>>>>
          /\ (pc = "rendered" /\ render.mode = "trueSize") =>
                canvas = <<FillRect(0, 0, 7, 7, "backgroundColor")>>

\* the beam-off glyph of the scenario, rendered at true size
Wit_C13_BeamOffGlyph ==
    /\ pc = "rendered"
    /\ render.mode = "trueSize"
    /\ binaryData = <<10, 10>>
    /\ triplets = <<<<2, 2, 0>>, <<4, 4, 0>>>>
    /\ StrokePixels(canvas) = <<>>

Max(a, b) == IF a >= b THEN a ELSE b

\* number of steps of the walk of segment k when coordinates are multiplied
\* by m: the larger of m * |dx| and m * |dy|
SegSteps(ts, m, k) ==
    m * Max(Abs(ts[k][1] - SegStart(ts, k)[1]), Abs(ts[k][2] - SegStart(ts, k)[2]))

\* number of stroke pixels written by the drawn segments among 1..k
RECURSIVE PixelsThrough(_, _, _)
PixelsThrough(ts, m, k) ==
    IF k = 0 THEN 0
    ELSE PixelsThrough(ts, m, k - 1)
            + (IF ts[k][3] > 0 THEN SegSteps(ts, m, k) + 1 ELSE 0)

\* positions, among the stroke pixels, of the first and last pixel of the
\* drawn segment k
FirstPixel(ts, m, k) == PixelsThrough(ts, m, k - 1) + 1
LastPixel(ts, m, k) == PixelsThrough(ts, m, k)

\* C14: CDC-scaled rendering with beam width 1 at scale 1, 2, 4 or 8 clears a
\* square of side 7 * scale and writes every stroke pixel as a 1 x 1
\* rectangle; each drawn segment walks from scale * (start) to
\* scale * (destination), one device pixel per step, so that consecutive
\* pixels of a segment touch and the line is one pixel wide.
Thm_C14_CDCScaledOnePixelWide ==
    (pc = "rendered" /\ render.mode = "cdcScaled" /\ render.beamWidth = 1) =>
       LET s == render.scale
           top == 7 * s - 1
           px == StrokePixels(canvas)
       IN  /\ s \in {1, 2, 4, 8}
           /\ canvas[1] = FillRect(0, 0, 7 * s, 7 * s, "backgroundColor")
           /\ \A j \in 1..Len(px) : px[j].w = 1 /\ px[j].h = 1
           /\ Len(px) = PixelsThrough(triplets, s, Len(triplets))
           /\ \A k \in BeamOnSegs(triplets) :
                 LET first == FirstPixel(triplets, s, k)
                     last == LastPixel(triplets, s, k)
                 IN  /\ px[first].x = s * SegStart(triplets, k)[1]
                     /\ px[first].y = top - s * SegStart(triplets, k)[2]
                     /\ px[last].x = s * triplets[k][1]
                     /\ px[last].y = top - s * triplets[k][2]
                     /\ \A j \in first..(last - 1) :
                           /\ Abs(px[j + 1].x - px[j].x) <= 1
                           /\ Abs(px[j + 1].y - px[j].y) <= 1
                           /\ px[j + 1] # px[j]

\* the full diagonal at scale 8: 49 pixels of 1 x 1 on a 56 x 56 canvas
Wit_C14_DiagonalAtScale8 ==
    /\ pc = "rendered"
    /\ render.mode = "cdcScaled" /\ render.scale = 8 /\ render.beamWidth = 1
    /\ triplets = <<<<6, 6, 1>>>>
    /\ canvas[1].w = 56
    /\ Len(StrokePixels(canvas)) = 49
    /\ StrokePixels(canvas)[49] = FillRect(48, 7, 1, 1, "pixelColor")

Sign(n) == IF n > 0 THEN 1 ELSE IF n < 0 THEN -1 ELSE 0
Between(v, a, b) == (a <= v /\ v <= b) \/ (b <= v /\ v <= a)

\* the logical point the walk of segment k (from a to b) visits at its step
\* j may only be: j steps along the longer axis, inside the box of a and b
OnWalk(p, j, a, b) ==
    /\ Between(p[1], a[1], b[1])
    /\ Between(p[2], a[2], b[2])
    /\ IF Abs(b[1] - a[1]) >= Abs(b[2] - a[2])
       THEN p[1] = a[1] + j * Sign(b[1] - a[1])
       ELSE p[2] = a[2] + j * Sign(b[2] - a[2])

\* C15: true-size rendering clears exactly 7 x 7 and writes each logical
\* point (x, y) its lines visit as one 1 x 1 pixel at column x, row 6 - y:
\* reading every stroke pixel (c, r) back as the logical point (c, 6 - r)
\* gives the walk from each drawn segment's start to its destination, so
\* (0,0) is pixel (0,6) and (6,6) is pixel (6,0).
Thm_C15_TrueSizeFlip ==
    (pc = "rendered" /\ render.mode = "trueSize") =>
       LET px == StrokePixels(canvas)
       IN  /\ canvas[1] = FillRect(0, 0, 7, 7, "backgroundColor")
           /\ \A j \in 1..Len(px) : px[j].w = 1 /\ px[j].h = 1
           /\ Len(px) = PixelsThrough(triplets, 1, Len(triplets))
           /\ \A k \in BeamOnSegs(triplets) :
                 LET first == FirstPixel(triplets, 1, k)
                     last == LastPixel(triplets, 1, k)
                     a == SegStart(triplets, k)
                     b == <<triplets[k][1], triplets[k][2]>>
                 IN  /\ <<px[first].x, 6 - px[first].y>> = a
                     /\ <<px[last].x, 6 - px[last].y>> = b
                     /\ (b = <<0, 0>>) => (px[last].x = 0 /\ px[last].y = 6)
                     /\ (b = <<6, 6>>) => (px[last].x = 6 /\ px[last].y = 0)
                     /\ \A j \in first..last :
                           OnWalk(<<px[j].x, 6 - px[j].y>>, j - first, a, b)

\* a dot at the origin and the diagonal to (6,6): bottom-left to top-right
Wit_C15_Corners ==
    /\ pc = "rendered"
    /\ render.mode = "trueSize"
    /\ triplets = <<<<0, 0, 1>>, <<6, 6, 1>>>>
    /\ StrokePixels(canvas)[1] = FillRect(0, 6, 1, 1, "pixelColor")
    /\ StrokePixels(canvas)[8] = FillRect(6, 0, 1, 1, "pixelColor")
    /\ Len(StrokePixels(canvas)) = 8

\* two filled rectangles share no device pixel
Disjoint(r, q) ==
    \/ r.x + r.w <= q.x
    \/ q.x + q.w <= r.x
    \/ r.y + r.h <= q.y
    \/ q.y + q.h <= r.y

\* C16: supersampled rendering at resolution = 7k clears resolution x
\* resolution and fills, for each logical point (x, y) its lines visit, the
\* k x k block whose top-left device pixel is (x * k, (6 - y) * k), a square
\* of side resolution / 7 centred on the logical coordinate; blocks of
\* different points of [0,6] x [0,6] do not overlap and lie inside the canvas.
Thm_C16_SupersampledBlocks ==
    (pc = "rendered" /\ render.mode = "bitmap") =>
       LET res == render.resolution
           size == res \div 7
           px == StrokePixels(canvas)
           Logical(r) == <<r.x \div size, 6 - (r.y \div size)>>
           InGlyph(p) == p[1] \in 0..6 /\ p[2] \in 0..6
       IN  /\ res = 7 * size
           /\ canvas[1] = FillRect(0, 0, res, res, "backgroundColor")
           /\ Len(px) = PixelsThrough(triplets, 1, Len(triplets))
           /\ \A j \in 1..Len(px) :
                 /\ px[j].w = size /\ px[j].h = size
                 /\ px[j].x = Logical(px[j])[1] * size
                 /\ px[j].y = (6 - Logical(px[j])[2]) * size
                 /\ 2 * px[j].x + size = (2 * Logical(px[j])[1] + 1) * size
                 /\ 2 * px[j].y + size = (2 * (6 - Logical(px[j])[2]) + 1) * size
                 /\ InGlyph(Logical(px[j])) =>
                       /\ 0 <= px[j].x /\ px[j].x + size <= res
                       /\ 0 <= px[j].y /\ px[j].y + size <= res
           /\ \A j, n \in 1..Len(px) :
                 Logical(px[j]) # Logical(px[n]) => Disjoint(px[j], px[n])
           /\ \A s \in BeamOnSegs(triplets) :
                 LET first == FirstPixel(triplets, 1, s)
                     last == LastPixel(triplets, 1, s)
                     a == SegStart(triplets, s)
                     b == <<triplets[s][1], triplets[s][2]>>
                 IN  \A j \in first..last :
                        OnWalk(Logical(px[j]), j - first, a, b)

\* the diagonal at resolution 21: seven 3 x 3 blocks from (0,18) to (18,0)
Wit_C16_DiagonalAt21 ==
    /\ pc = "rendered"
    /\ render.mode = "bitmap" /\ render.resolution = 21
    /\ triplets = <<<<6, 6, 1>>>>
    /\ Len(StrokePixels(canvas)) = 7
    /\ StrokePixels(canvas)[1] = FillRect(0, 18, 3, 3, "pixelColor")
    /\ StrokePixels(canvas)[7] = FillRect(18, 0, 3, 3, "pixelColor")

(***************************************************************************)
(* Termination.                                                            *)
(***************************************************************************)
\* the larger of |x1 - x0| and |y1 - y0| of the walk
WalkLength(w) == Max(Abs(w.x1 - w.x0), Abs(w.y1 - w.y0))

\* C17: every operation finishes: the decoder loop, once entered, returns
\* after one pass (i never passes the length); the triplet functions then
\* complete; and every line walk, of any of the three line functions, at any
\* scale, zero-length or with end points outside [0,6], returns, having
\* stopped on its end point after max(|dx|, |dy|) + 1 iterations.
Thm_C17_Terminates ==
    /\ (pc = "loop") ~> (pc = "returned")
    /\ (pc = "returned") ~> (pc = "analysed")
    /\ (pc = "walking") ~> (pc = "walked")
    /\ [](pc = "loop" => i <= Len(binaryData))
    /\ [](pc = "walking" => walk.steps <= WalkLength(walk))
    /\ [](pc = "walked" =>
             /\ walk.x = walk.x1 /\ walk.y = walk.y1
             /\ walk.steps = WalkLength(walk) + 1
             /\ Len(canvas) = walk.steps)

\* a CDC-scaled walk at scale 8 between two points outside the window,
\* finished on its end point
Wit_C17_ScaledWalkOutside ==
    /\ pc = "walked"
    /\ walk.fn = "drawCDCBitmapLine" /\ walk.scale = 8
    /\ <<walk.x0, walk.y0>> = <<-8, 24>>
    /\ <<walk.x1, walk.y1>> = <<24, 56>>
    /\ <<walk.x, walk.y>> = <<24, 56>>
    /\ walk.steps = 33

(***************************************************************************)
(* Out-of-range coordinates, overlays, concurrent calls.                   *)
(***************************************************************************)
OutsideWindow(p) == p[1] < 0 \/ p[1] > 6 \/ p[2] < 0 \/ p[2] > 6
OutsideCanvas(r, side) ==
    r.x < 0 \/ r.x >= side \/ r.y < 0 \/ r.y >= side

\* C18: coordinates outside [0,6] are neither clamped nor rejected: in
\* true-size and CDC-scaled rendering a canvas is always produced, no drawn
\* segment is dropped, and every point a walk visits is written at exactly
\* (x, 6 - y), respectively (x, (7 * scale - 1) - y), so a destination
\* outside the window puts its pixel outside the canvas.
Thm_C18_NoClampNoReject ==
    (pc = "rendered" /\ render.mode \in {"trueSize", "cdcScaled"}) =>
       LET m == render.scale
           top == 7 * m - 1
           px == StrokePixels(canvas)
           ReadBack(r) == <<r.x, top - r.y>>
       IN  /\ Len(canvas) >= 1
           /\ Len(px) = PixelsThrough(triplets, m, Len(triplets))
           /\ \A n \in BeamOnSegs(triplets) :
                 LET first == FirstPixel(triplets, m, n)
                     last == LastPixel(triplets, m, n)
                     a == <<m * SegStart(triplets, n)[1], m * SegStart(triplets, n)[2]>>
                     b == <<m * triplets[n][1], m * triplets[n][2]>>
                 IN  /\ px[first].x = a[1] /\ px[first].y = top - a[2]
                     /\ px[last].x = b[1] /\ px[last].y = top - b[2]
                     /\ \A j \in first..last :
                           OnWalk(ReadBack(px[j]), j - first, a, b)
                     /\ OutsideWindow(<<triplets[n][1], triplets[n][2]>>) =>
                           OutsideCanvas(px[last], 7 * m)

\* a decoded glyph whose beam-on point has a negative coordinate, drawn at
\* true size: a stroke pixel lies outside the 7 x 7 canvas
Wit_C18_DecodedNegative ==
    /\ pc = "rendered"
    /\ render.mode = "trueSize"
    /\ Len(binaryData) > 0
    /\ \E n \in BeamOnSegs(triplets) :
          triplets[n][1] < 0 \/ triplets[n][2] < 0
    /\ \E j \in 1..Len(StrokePixels(canvas)) :
          OutsideCanvas(StrokePixels(canvas)[j], 7)

\* the canvas the same call leaves when the overlay is not requested
WithoutOverlay(ts, r) ==
    CASE r.mode = "bitmap" -> renderBitmap(ts, r.resolution, FALSE)
      [] r.mode = "cdcScaled" ->
            renderCDCScaledBitmap(ts, r.scale, r.beamWidth, FALSE)

\* number of grid lines the overlay draws: two for each i of its loop
OverlayLines(r) ==
    IF r.mode = "bitmap" THEN 2 * (7 + 1) ELSE 2 * (r.resolution + 1)

\* C19: with showGrid / showPixelGrid on, renderBitmap and
\* renderCDCScaledBitmap write the same stroke pixels, in the same order, as
\* with the overlay off; the overlay lines are all drawn before the first
\* stroke pixel, so no stroke pixel is painted over.
Thm_C19_OverlayLeavesStrokes ==
    (pc = "rendered" /\ render.mode \in {"bitmap", "cdcScaled"}) =>
       /\ StrokePixels(canvas) = StrokePixels(WithoutOverlay(triplets, render))
       /\ render.showGrid =>
             /\ Len(SelectSeq(canvas, IsGridLine)) = OverlayLines(render)
             /\ Len(canvas) = Len(WithoutOverlay(triplets, render))
                                 + OverlayLines(render)
       /\ \A j, n \in 1..Len(canvas) :
             (j < n /\ IsStrokePixel(canvas[j])) => IsStrokePixel(canvas[n])

\* the diagonal at resolution 14 with the grid: clear, 16 grid lines, then
\* 7 stroke blocks
Wit_C19_GridThenStrokes ==
    /\ pc = "rendered"
    /\ render.mode = "bitmap" /\ render.resolution = 14 /\ render.showGrid
    /\ triplets = <<<<6, 6, 1>>>>
    /\ Len(canvas) = 24
    /\ IsGridLine(canvas[17])
    /\ IsStrokePixel(canvas[18])

\* C20: whatever the interleaving of the strokes of several calls, each call
\* has pushed, at every moment, the first i points of what binaryToVector
\* returns for its glyph when run alone, and returns exactly that list; the
\* glyph it reads is never changed.
Thm_C20_InterleavingHarmless ==
    \A w \in Workers :
       LET alone == binaryToVector(workers[w].binaryData)
       IN  /\ workers[w].pc = "loop" =>
                /\ workers[w].i <= Len(workers[w].binaryData)
                /\ workers[w].vectorData = SubSeq(alone, 1, workers[w].i)
           /\ workers[w].pc = "returned" => workers[w].vectorData = alone
           /\ workers[w].pc # "idle" => workers[w].binaryData \in WorkerGlyphs

\* two calls on different glyphs in progress at once, each part-way through
\* its loop with the points it would have pushed alone
Wit_C20_TwoCallsInFlight ==
    /\ workers[1].pc = "loop"
    /\ workers[1].binaryData = ToggleExample
    /\ workers[1].i = 1
    /\ workers[1].vectorData = SubSeq(binaryToVector(ToggleExample), 1, 1)
    /\ workers[2].pc = "loop"
    /\ workers[2].binaryData = LetterCPrefix
    /\ workers[2].i = 2
    /\ workers[2].vectorData = SubSeq(binaryToVector(LetterCPrefix), 1, 2)

(***************************************************************************)
(* Properties of the encoders and of the lookup layer.                     *)
(***************************************************************************)
\* every delta of v, the first one taken from the origin, has magnitude at
\* most m on each axis
DeltasWithin(v, m) ==
    \A k \in 1..Len(v) :
        LET px == IF k = 1 THEN 0 ELSE v[k - 1][1]
            py == IF k = 1 THEN 0 ELSE v[k - 1][2]
        IN  Abs(v[k][1] - px) <= m /\ Abs(v[k][2] - py) <= m

\* the round trip of one encoder has run to its end
RoundTripDone(name) ==
    /\ pc = "returned"
    /\ encoded.encoder = name
    /\ ~encoded.thrown

\* C21: decoding the codes convertVectorToCdcTableSimple produces from a
\* vector glyph whose deltas are at most 2 per axis gives the glyph back,
\* same length and same x, y and beam at every index.  The code does not do
\* this: the simple encoder writes magnitudes only, so a leftward or
\* downward delta is decoded as a rightward or upward one.
Cex_C21_SimpleRoundTrip ==
    (RoundTripDone("simple") /\ DeltasWithin(inputVectors, 2))
        => vectorData = inputVectors

\* the five digits the encoding rule gives to point k of v
RuleDigits(v, k) ==
    LET p == PointBefore(v, k)
        dy == Abs(v[k][2] - p[2])
        dx == Abs(v[k][1] - p[1])
    IN  <<IF dy = 1 THEN 1 ELSE 0,
          IF dy = 2 THEN 1 ELSE 0,
          IF dx = 1 THEN 1 ELSE 0,
          IF dx = 2 THEN 1 ELSE 0,
          IF v[k][3] # p[3] THEN 1 ELSE 0>>

\* the simple encoder has returned a result for inputVectors
SimpleEncoded == encoded.encoder = "simple" /\ ~encoded.thrown

\* C22: convertVectorToCdcTableSimple emits one 5-bit code per input point,
\* V1 for a 1-unit and V2 for a 2-unit vertical delta, H1 and H2 likewise, U
\* when the beam differs from the previous point's beam, starting from (0,0)
\* with the beam off; its summary has beamOnStrokes + beamOffStrokes =
\* totalStrokes = input length; the letter C gives 22 codes beginning
\* 0b01010 0b01010 0b10010 0b00000 0b00001 0b10010 0b00010 0b10010 with 10
\* beam-on and 12 beam-off strokes.
Thm_C22_SimpleEncoding ==
    SimpleEncoded =>
        /\ Len(encoded.binarySequence) = Len(inputVectors)
        /\ \A k \in 1..Len(inputVectors) :
              encoded.binarySequence[k] = RuleDigits(inputVectors, k)
        /\ encoded.summary.totalStrokes = Len(inputVectors)
        /\ encoded.summary.beamOnStrokes + encoded.summary.beamOffStrokes
               = encoded.summary.totalStrokes
        /\ encoded.summary.beamOnStrokes
               = Cardinality({k \in 1..Len(inputVectors) : inputVectors[k][3]})
        /\ inputVectors = letterC_vectors =>
              /\ Len(encoded.binarySequence) = 22
              /\ SubSeq(encoded.binarySequence, 1, 8)
                     = <<<<0, 1, 0, 1, 0>>, <<0, 1, 0, 1, 0>>,
                         <<1, 0, 0, 1, 0>>, <<0, 0, 0, 0, 0>>,
                         <<0, 0, 0, 0, 1>>, <<1, 0, 0, 1, 0>>,
                         <<0, 0, 0, 1, 0>>, <<1, 0, 0, 1, 0>>>>
              /\ encoded.summary.beamOnStrokes = 10
              /\ encoded.summary.beamOffStrokes = 12

\* the letter C has been encoded by the simple encoder
Wit_C22_LetterCEncoded ==
    /\ pc = "encoded"
    /\ SimpleEncoded
    /\ inputVectors = letterC_vectors

\* getCharacterVector(char) has returned
LookedUp == pc = "returned" /\ char # NoChar

\* binaryToVector was called directly on a sequence and has returned
DecodedDirectly == pc = "returned" /\ char = NoChar

\* C23: substitution for a missing character happens only in the lookup:
\* getCharacterBinary(c) is the table entry of c when c is a key and the
\* entry of the space character otherwise, so getCharacterVector of a
\* character that is not a key equals getCharacterVector(' '); binaryToVector
\* substitutes nothing: called on a sequence it returns one point per code
\* of that sequence, and no point for the empty sequence.
Thm_C23_SubstitutionInLookupOnly ==
    /\ LookedUp =>
          /\ char \in DOMAIN cdcRomBinary => binaryData = cdcRomBinary[char]
          /\ char \notin DOMAIN cdcRomBinary =>
                /\ binaryData = cdcRomBinary[" "]
                /\ vectorData = binaryToVector(cdcRomBinary[" "])
    /\ DecodedDirectly =>
          /\ binaryData \in Glyphs
          /\ Len(vectorData) = Len(binaryData)
          /\ binaryData = <<>> => vectorData = <<>>

\* a character that is not a key has been looked up and decoded to the
\* points of the space character, which differ from those of the letter C
Wit_C23_AbsentCharDecoded ==
    /\ LookedUp
    /\ char = "~"
    /\ Len(vectorData) = StrokesPerGlyph
    /\ vectorData # binaryToVector(cdcRomBinary["C"])

\* C24: the direction-tracking encoder convertVectorToCdcBinary handles
\* direction changes: for a vector glyph of at most 22 points whose deltas
\* are at most 2 per axis, binaryToVector of its output has the glyph's
\* points at indices 0..len-1, reversals included.  The code does not do
\* this: the toggle for the next movement is OR'ed into the bits of the
\* current movement, and a code with both bits of an axis set moves nothing
\* on that axis.
Cex_C24_TrackingRoundTrip ==
    (/\ RoundTripDone("tracking")
     /\ Len(inputVectors) <= StrokesPerGlyph
     /\ DeltasWithin(inputVectors, 2))
        => SubSeq(vectorData, 1, Len(inputVectors)) = inputVectors

\* the direction-tracking encoder has returned a result for inputVectors
TrackingEncoded == encoded.encoder = "tracking" /\ ~encoded.thrown

\* entry e stands for point k of v: its U bit is the beam change at k, and
\* on each axis its two bits are either the toggle or the magnitude of the
\* delta at k
EntryOfPoint(e, v, k) ==
    LET p == PointBefore(v, k)
        dy == Abs(v[k][2] - p[2])
        dx == Abs(v[k][1] - p[1])
    IN  /\ e.U = (IF v[k][3] # p[3] THEN 1 ELSE 0)
        /\ \/ e.V1 = 1 /\ e.V2 = 1
           \/ e.V1 = (IF dy = 1 THEN 1 ELSE 0) /\ e.V2 = (IF dy = 2 THEN 1 ELSE 0)
        /\ \/ e.H1 = 1 /\ e.H2 = 1
           \/ e.H1 = (IF dx = 1 THEN 1 ELSE 0) /\ e.H2 = (IF dx = 2 THEN 1 ELSE 0)

WalkPoint(w, r) ==
    CASE w.fn = "drawPixelLine" -> <<r.x, 6 - r.y>>
      [] w.fn = "drawCDCBitmapLine" -> <<r.x, (7 * w.scale - 1) - r.y>>
      [] w.fn = "drawBitmapLine" -> <<r.x \div w.scale, 6 - (r.y \div w.scale)>>

\* the points written so far by the running walk, in order
WalkPoints == [j \in 1..Len(canvas) |-> WalkPoint(walk, canvas[j])]

\* q follows p by exactly 1 along the longer axis of the walk and by at
\* most 1 along the other
UnitStep(w, p, q) ==
    LET dx == Abs(w.x1 - w.x0)
        dy == Abs(w.y1 - w.y0)
    IN  /\ dx >= dy => Abs(q[1] - p[1]) = 1 /\ Abs(q[2] - p[2]) <= 1
        /\ dy >= dx => Abs(q[2] - p[2]) = 1 /\ Abs(q[1] - p[1]) <= 1

\* C26: a line walk of drawPixelLine, drawCDCBitmapLine or drawBitmapLine
\* from (x0, y0) to (x1, y1) writes the start point first and the end point
\* last, exactly max(|x1 - x0|, |y1 - y0|) + 1 points in all, each one
\* exactly 1 from the previous along the major axis and at most 1 along the
\* minor axis, so there is no gap and no point is written twice; a
\* zero-length segment writes exactly one point.
Thm_C26_GaplessWalk ==
    pc \in {"walking", "walked"} =>
        /\ Len(canvas) >= 1 => WalkPoints[1] = <<walk.x0, walk.y0>>
        /\ \A j \in 2..Len(canvas) :
              UnitStep(walk, WalkPoints[j - 1], WalkPoints[j])
        /\ \A j, k \in 1..Len(canvas) :
              WalkPoints[j] = WalkPoints[k] => j = k
        /\ Len(canvas) <= WalkLength(walk) + 1
        /\ pc = "walked" =>
              /\ WalkPoints[Len(canvas)] = <<walk.x1, walk.y1>>
              /\ Len(canvas) = WalkLength(walk) + 1
              /\ <<walk.x0, walk.y0>> = <<walk.x1, walk.y1>> => Len(canvas) = 1

\* a shallow line of the supersampled rasterizer, from (6,1) back to (0,0),
\* finished: seven blocks, one per column, the row changing once
Wit_C26_ShallowLineWalked ==
    /\ pc = "walked"
    /\ walk.fn = "drawBitmapLine" /\ walk.scale = 3
    /\ <<walk.x0, walk.y0>> = <<6, 1>>
    /\ <<walk.x1, walk.y1>> = <<0, 0>>
    /\ Len(canvas) = 7
    /\ WalkPoints[1] = <<6, 1>>
    /\ WalkPoints[7] = <<0, 0>>

\* every point of ts lies in the 7 x 7 window (the implicit origin does)
InWindow(ts) ==
    \A k \in 1..Len(ts) : ts[k][1] \in 0..6 /\ ts[k][2] \in 0..6

\* C27: every point a line walk visits lies in the bounding box of the
\* walk's two end points; so when all points of the triplet sequence lie
\* in [0,6] x [0,6], every stroke pixel is inside the canvas of the mode:
\* column and row 0..6 at true size, and column 0..6*scale and row
\* scale-1..7*scale-1 in CDC-scaled mode, all within 0..7*scale-1.
Thm_C27_WalkInsideBox ==
    (pc = "rendered" /\ render.mode \in {"trueSize", "cdcScaled"}) =>
       LET s == IF render.mode = "trueSize" THEN 1 ELSE render.scale
           top == 7 * s - 1
           px == StrokePixels(canvas)
       IN  /\ \A k \in BeamOnSegs(triplets) :
                 LET a == SegStart(triplets, k)
                     b == triplets[k]
                 IN  \A j \in FirstPixel(triplets, s, k)..LastPixel(triplets, s, k) :
                        /\ Between(px[j].x, s * a[1], s * b[1])
                        /\ Between(top - px[j].y, s * a[2], s * b[2])
           /\ InWindow(triplets) =>
                 \A j \in 1..Len(px) :
                    /\ px[j].x \in 0..(6 * s)
                    /\ px[j].y \in (s - 1)..(7 * s - 1)
                    /\ px[j].x \in 0..top /\ px[j].y \in 0..top

\* the diagonal and the right edge at scale 4: the first segment ends in
\* column 24, row 3, the second runs down column 24 to row 23
Wit_C27_EdgesAtScale4 ==
    /\ pc = "rendered"
    /\ render.mode = "cdcScaled" /\ render.scale = 4 /\ render.beamWidth = 1
    /\ triplets = <<<<6, 6, 1>>, <<6, 1, 1>>>>
    /\ Len(StrokePixels(canvas)) = 46
    /\ StrokePixels(canvas)[25] = FillRect(24, 3, 1, 1, "pixelColor")
    /\ StrokePixels(canvas)[46] = FillRect(24, 23, 1, 1, "pixelColor")

\* the rendering that has run is one of the two other rasterizers at unit
\* scale: CDC-scaled at scale 1 with the default beam width, or the
\* supersampled bitmap at resolution 7
AtUnitScale ==
    /\ pc = "rendered"
    /\ \/ render.mode = "cdcScaled" /\ render.scale = 1 /\ render.beamWidth = 1
       \/ render.mode = "bitmap" /\ render.resolution = 7

\* C28: at unit scale the three rasterizers coincide: renderCDCScaledBitmap
\* with scale 1 and renderBitmap with resolution 7 write the same 1 x 1
\* stroke pixels, in the same order, as renderTrueSizeBitmap does for the
\* same triplets.
Thm_C28_UnitScaleCoincide ==
    AtUnitScale =>
        /\ StrokePixels(canvas) = StrokePixels(renderTrueSizeBitmap(triplets))
        /\ \A j \in 1..Len(StrokePixels(canvas)) :
              StrokePixels(canvas)[j].w = 1 /\ StrokePixels(canvas)[j].h = 1

\* the supersampled rasterizer at resolution 7 has drawn the line from the
\* origin to (2,5): six pixels ending in column 2, row 1
Wit_C28_BitmapAtSeven ==
    /\ pc = "rendered"
    /\ render.mode = "bitmap" /\ render.resolution = 7
    /\ triplets = <<<<2, 5, 1>>>>
    /\ Len(StrokePixels(canvas)) = 6
    /\ StrokePixels(canvas)[6] = FillRect(2, 1, 1, 1, "pixelColor")

(***************************************************************************)
(* The decoder on prefixes, and the encoders on paths without reversal.    *)
(***************************************************************************)
\* the first k elements of a sequence
Prefix(q, k) == SubSeq(q, 1, k)

\* C29: the decoder is prefix-closed: for every k up to the length of the
\* sequence being decoded, the first k points of the result are what
\* binaryToVector returns for the first k codes alone; while the loop runs
\* the array holds the decoding of the codes read so far, and a stroke only
\* appends: the points already pushed never change.
Thm_C29_PrefixClosed ==
    /\ [](pc = "loop" => vectorData = binaryToVector(Prefix(binaryData, i)))
    /\ [](pc = "returned" =>
             \A k \in 0..Len(binaryData) :
                Prefix(vectorData, k) = binaryToVector(Prefix(binaryData, k)))
    /\ [][pc = "loop" =>
             /\ Len(vectorData') >= Len(vectorData)
             /\ Prefix(vectorData', Len(vectorData)) = vectorData]_vars

\* the 22 codes of the letter C have been decoded, and the first five
\* points are the decoding of the five-code prefix
Wit_C29_LetterCAndItsPrefix ==
    /\ pc = "returned"
    /\ binaryData = LetterCBinary
    /\ Prefix(vectorData, 5) = binaryToVector(LetterCPrefix)
    /\ vectorData[22] # vectorData[5]

\* every delta of v, the first one taken from the origin, is 0, +1 or +2 on
\* each axis
NonReversing(v) ==
    \A k \in 1..Len(v) :
        /\ v[k][1] - PointBefore(v, k)[1] \in 0..2
        /\ v[k][2] - PointBefore(v, k)[2] \in 0..2

\* C30: on a path that never reverses the simple encoder and the decoder
\* are inverse: for a non-empty vector glyph whose deltas are all 0, +1 or
\* +2 on each axis, binaryToVector of the codes of
\* convertVectorToCdcTableSimple is the glyph itself; and no code the
\* encoder emits has both V bits or both H bits set, so decoding its output
\* never toggles a direction.
Thm_C30_InverseWithoutReversal ==
    SimpleEncoded =>
        /\ \A k \in 1..Len(encoded.binarySequence) :
              LET d == encoded.binarySequence[k]
                  code == binaryDataOf(encoded)[k]
              IN  /\ ~(d[1] = 1 /\ d[2] = 1)
                  /\ ~(d[3] = 1 /\ d[4] = 1)
                  /\ VField(code) # 3 /\ HField(code) # 3
        /\ pc \in {"loop", "returned"} =>
              /\ binaryData = binaryDataOf(encoded)
              /\ horizontalDirection = 1
              /\ verticalDirection = 1
        /\ (pc = "returned" /\ NonReversing(inputVectors)) =>
              vectorData = inputVectors

\* a path up and to the right with a beam change has been encoded and
\* decoded back to itself
Wit_C30_MonotonePathBack ==
    /\ RoundTripDone("simple")
    /\ inputVectors = <<<<1, 2, TRUE>>, <<2, 2, FALSE>>>>
    /\ vectorData = inputVectors

====
